---- MODULE Spec2Model ----
(***************************************************************************)
(* Model of libzfs_core/_libzfs_core.py (pyzfs): the Python wrappers of   *)
(* the batch operations (snapshot, destroy, hold, release, bookmarks) on  *)
(* top of the native libzfs_core engine, and the lazy initialization of   *)
(* the library handle.                                                    *)
(*                                                                        *)
(* The native engine is modelled from the contract the wrappers' doc      *)
(* strings and the test-suite state for it; _error_translation.py is not  *)
(* part of the sources at hand and is modelled from the design document.  *)
(***************************************************************************)
EXTENDS Integers, Sequences, FiniteSets, TLC

VARIABLES
    snapshots,   \* engine: the snapshots that exist (what lzc_exists reports)
    holds,       \* engine: the user holds, a set of <<snapshot, tag>>
    deferred,    \* engine: the snapshots marked for deferred destruction
    bookmarks,   \* engine: the bookmarks that exist
    last,        \* the last wrapper call: arguments, state before it, outcome
    inited,      \* LazyInit._inited
    lock,        \* LazyInit._lock: the thread holding it, or NoThread
    pc,          \* the position of each thread in LazyInit.__getattr__
    initRet,     \* each thread's local ret = self._lib.libzfs_core_init()
    initCalls,   \* the number of invocations of libzfs_core_init so far
    initFailed,  \* libzfs_core_init has returned a nonzero status
    initOk,      \* libzfs_core_init has returned 0
    observed,    \* what each thread's accesses to the handle ended in, in order
    engineKeepsContract,  \* the native engine answers only as documented
    created,     \* engine: the filesystems made by lzc_create
    clones,      \* engine: the clones, a set of <<clone, origin snapshot>>
    libProvides, \* the functions the C library libzfs_core provides
    called,      \* the last use of an uncommitted function, and how it ended
    scope,       \* one execution of a wrapper, step by step, and its output list
    codec,       \* a List value, its encoding and what is decoded from that
    listing      \* one use of lzc_list: the pipe, the records, the reader

vars == <<snapshots, holds, deferred, bookmarks, last,
          inited, lock, pc, initRet, initCalls, initFailed, initOk, observed,
          engineKeepsContract, created, clones, libProvides, called, scope,
          codec, listing>>

engineVars == <<snapshots, holds, deferred, bookmarks>>
datasetVars == <<created, clones>>
\* what no wrapper of a batch call changes
sideVars == <<engineKeepsContract, libProvides, called, scope, codec, listing>>
initVars == <<inited, lock, pc, initRet, initCalls, initFailed, initOk,
              observed>>

-----------------------------------------------------------------------------
(* Bounds of the model *)

\* the longest list of names given to one batch call
MaxBatch == 2
\* the most keys of one List value
MaxEntries == 2
\* the most records the engine writes to the pipe of one lzc_list
MaxRecords == 2
\* the most tags given to one call of lzc_release, over all its snapshots
MaxTags == 2
\* the number of threads using the library handle
NumThreads == 2
\* how many accesses to the handle each thread makes
MaxAccesses == 2

SeqsUpTo(S, n) == UNION {[1..k -> S] : k \in 0..n}

Range(f) == {f[x] : x \in DOMAIN f}

-----------------------------------------------------------------------------
(* The names of the model's pool. "p" and "p/fs1" are filesystems that    *)
(* exist (the test-suite creates its filesystems in setUpClass and never  *)
(* destroys them); "p/nx" does not exist.                                 *)

Pools == {"p"}

Filesystems == {"p", "p/fs1"}

\* "p@s1" and "p/fs1@s1" can exist; the filesystem of "p/nx@s1" and the
\* pool of "q@s1" do not exist
SnapNames == {"p@s1", "p/fs1@s1", "p/nx@s1", "q@s1"}

\* the filesystem component of a snapshot name: the part before '@'
FsOf(name) ==
    CASE name = "p@s1" -> "p"
      [] name = "p/fs1@s1" -> "p/fs1"
      [] name = "p/nx@s1" -> "p/nx"
      [] name = "q@s1" -> "q"

Tags == {"t1", "t2"}

\* "p#b1" can exist; the filesystem of "p/nx#b1" does not exist; "p#b@d" is
\* not a valid bookmark name
BookmarkNames == {"p#b1", "p/nx#b1", "p#b@d"}

ValidBookmarkNames == {"p#b1", "p/nx#b1"}

\* the filesystem component of a bookmark name: the part before '#'
BookmarkFsOf(name) ==
    CASE name = "p#b1" -> "p"
      [] name = "p/nx#b1" -> "p/nx"
      [] name = "p#b@d" -> "p"

\* the pool component of a filesystem name: the part before the first '/'
PoolOf(fs) == IF fs = "q" THEN "q" ELSE "p"

\* errno values, as the Python module errno gives them
Errno == [ENOENT |-> 2, EBADF |-> 9, EBUSY |-> 16, EEXIST |-> 17,
          EXDEV |-> 18, EINVAL |-> 22]

\* an empty error list, as errlist = {} before the call
EmptyErrlist == [n \in {} |-> 0]

\* a property argument: None or a dict, given by its keys
PropsArgs == {[isNone |-> TRUE, keys |-> {}],
              [isNone |-> FALSE, keys |-> {"user:foo"}],
              [isNone |-> FALSE, keys |-> {"foo"}]}

\* "Currently only user properties (prefixed with "user:") are supported."
UserProps == {"user:foo"}

-----------------------------------------------------------------------------
(* The native engine behind _lib.  A native call answers with a status    *)
(* (ret), the error list it filled in, and the engine state it leaves.    *)

Answer(ret, errlist, s, h, d, b) ==
    [ret |-> ret, errlist |-> errlist, snapshots |-> s, holds |-> h,
     deferred |-> d, bookmarks |-> b]

\* a failed native call: "none are created", "no holds will be created",
\* "none of the snapshots will be destroyed"
Fail(ret, errlist) ==
    Answer(ret, errlist, snapshots, holds, deferred, bookmarks)

\* every name of S failed with the same code
AllWith(S, code) == [n \in S |-> code]

\* the names that occur more than once in a list of names
Duplicates(nv) ==
    {nv[i] : i \in {j \in DOMAIN nv : \E k \in DOMAIN nv : k # j /\ nv[k] = nv[j]}}

\* The error conditions native lzc_snapshot finds in a request.
SnapshotConditions(nv, props) ==
    LET names == Range(nv)
    IN  (IF names \cap snapshots # {} THEN {"exists"} ELSE {})
        \cup (IF \E n \in names : FsOf(n) \notin Filesystems THEN {"nofs"} ELSE {})
        \cup (IF \E a, b \in names : PoolOf(FsOf(a)) # PoolOf(FsOf(b))
              THEN {"pools"} ELSE {})
        \cup (IF ~(props \subseteq UserProps) THEN {"props"} ELSE {})

\* What native lzc_snapshot reports for one error condition.  An existing
\* snapshot is the one condition reported per snapshot, and it is reported
\* "for all affected snapshots" "only if there are no other error conditions".
SnapshotFailures(cond, nv, props) ==
    LET existing == Range(nv) \cap snapshots
    IN  CASE cond = "exists" ->
               {Fail(Errno.EEXIST, AllWith(S, Errno.EEXIST)) :
                   S \in IF SnapshotConditions(nv, props) = {"exists"}
                         THEN {existing}
                         ELSE SUBSET existing \ {{}}}
          [] cond = "nofs" -> {Fail(Errno.ENOENT, EmptyErrlist)}
          [] cond = "pools" -> {Fail(Errno.EXDEV, EmptyErrlist)}
          [] cond = "props" -> {Fail(Errno.EINVAL, EmptyErrlist)}

\* Native lzc_snapshot: "Either all snapshots are successfully created or
\* none are created"; "if multiple error conditions are encountered only one
\* of them is reported".  The engine is not known to accept a name twice in
\* one request: it may take the second occurrence for the first one or for a
\* snapshot that exists already.
native_lzc_snapshot(nv, props) ==
    LET conds == SnapshotConditions(nv, props)
        dups == Duplicates(nv)
    IN  (IF conds = {}
         THEN {Answer(0, EmptyErrlist, snapshots \cup Range(nv), holds,
                      deferred, bookmarks)}
         ELSE UNION {SnapshotFailures(c, nv, props) : c \in conds})
        \cup (IF dups = {} THEN {}
              ELSE {Fail(Errno.EEXIST, AllWith(dups, Errno.EEXIST))})

\* a snapshot that has user holds cannot be destroyed at once
Held(s) == \E t \in Tags : <<s, t>> \in holds

\* a snapshot that has clones cannot be destroyed at once either
Cloned(s) == \E c \in clones : c[2] = s

\* "They must all be in the same pool."
CrossPool(names) ==
    \E a, b \in names : PoolOf(FsOf(a)) # PoolOf(FsOf(b))

\* the snapshots of a request do not all lie in one pool that exists:
\* "non-existent pool name causes PoolNotFound"
PoolFailure(names) ==
    IF CrossPool(names)
    THEN {Fail(Errno.EXDEV, EmptyErrlist)}
    ELSE IF \E a \in names : PoolOf(FsOf(a)) \notin Pools
    THEN {Fail(Errno.ENOENT, EmptyErrlist)}
    ELSE {}

\* an engine without deferred destruction: a busy snapshot always makes the
\* call fail
native_lzc_destroy_snaps_never_deferring(nv, defer) ==
    LET names == Range(nv)
        existing == names \cap snapshots
        busy == {s \in existing : Held(s) \/ Cloned(s)}
        pf == PoolFailure(names)
    IN  IF pf # {} THEN pf
        ELSE IF busy # {}
        THEN {Fail(Errno.EBUSY, AllWith(busy, Errno.EBUSY))}
        ELSE {Answer(0, EmptyErrlist, snapshots \ existing, holds,
                     deferred \ existing, bookmarks)}

\* an engine that destroys what it can and reports the rest
native_lzc_destroy_snaps_best_effort(nv, defer) ==
    LET names == Range(nv)
        existing == names \cap snapshots
        busy == {s \in existing : Held(s) \/ Cloned(s)}
        pf == PoolFailure(names)
    IN  IF pf # {} THEN pf
        ELSE IF ~defer /\ busy # {}
        THEN {Answer(Errno.EBUSY, AllWith(busy, Errno.EBUSY),
                     snapshots \ (existing \ busy), holds,
                     deferred \ existing, bookmarks)}
        ELSE {Answer(0, EmptyErrlist, snapshots \ (existing \ busy), holds,
                     (deferred \ existing) \cup busy, bookmarks)}

\* Native lzc_destroy_snaps: "Snapshots that do not exist will be silently
\* ignored"; without defer a snapshot with user holds or clones makes the
\* call fail and none is destroyed (the typical error for a clone is
\* SnapshotIsCloned); with defer it is marked for deferred destruction.
native_lzc_destroy_snaps(nv, defer) ==
    LET names == Range(nv)
        existing == names \cap snapshots
        busy == {s \in existing : Held(s) \/ Cloned(s)}
        pf == PoolFailure(names)
    IN  IF pf # {} THEN pf
        ELSE IF ~defer /\ busy # {}
        THEN {Fail(IF \E s \in busy : Held(s) THEN Errno.EBUSY ELSE Errno.EEXIST,
                   [s \in busy |-> IF Held(s) THEN Errno.EBUSY ELSE Errno.EEXIST])}
        ELSE {Answer(0, EmptyErrlist, snapshots \ (existing \ busy), holds,
                     (deferred \ existing) \cup busy, bookmarks)}

\* Native lzc_hold.  nv maps each snapshot to the tag to hold it with; fd is
\* -1 or a cleanup descriptor.  "Holds for snapshots which don't exist will
\* be skipped and have an entry added to the return value, but will not
\* cause an overall failure"; "Otherwise HoldFailure exception is raised and
\* no holds will be created".  A hold is impossible on a snapshot that
\* carries the tag already; the one cleanup descriptor of the model is not
\* associated with /dev/zfs.
native_lzc_hold(nv, fd) ==
    LET names == DOMAIN nv
        present == names \cap snapshots
        impossible == {s \in present : <<s, nv[s]>> \in holds}
    IN  IF fd # -1 THEN {Fail(Errno.EBADF, EmptyErrlist)}
        ELSE IF CrossPool(names) THEN {Fail(Errno.EXDEV, EmptyErrlist)}
        ELSE IF impossible # {}
        THEN {Fail(Errno.EEXIST, AllWith(impossible, Errno.EEXIST))}
        ELSE {Answer(0, AllWith(names \ present, Errno.ENOENT), snapshots,
                     holds \cup {<<s, nv[s]>> : s \in present},
                     deferred, bookmarks)}

\* a tag that does not exist on an existing snapshot is reported as
\* {pool}/{fs}@{snap}#{tag}
Qualify(snap, tag) == snap \o "#" \o tag

\* Native lzc_release.  nv maps each snapshot to the set of tags to remove.
\* "Holds which failed to release because they didn't exist will have an
\* entry added to errlist, but will not cause an overall failure"; a
\* snapshot marked for deferred destroy is destroyed when all its user holds
\* are removed and it does not have any clones.
native_lzc_release(nv) ==
    LET names == DOMAIN nv
        present == names \cap snapshots
        wanted == {h \in present \X Tags : h[2] \in nv[h[1]]}
        left == holds \ wanted
        gone == {s \in deferred :
                    ~Cloned(s) /\ ~\E t \in Tags : <<s, t>> \in left}
    IN  IF CrossPool(names) THEN {Fail(Errno.EXDEV, EmptyErrlist)}
        ELSE {Answer(0,
                     AllWith((names \ present)
                               \cup {Qualify(h[1], h[2]) : h \in wanted \ holds},
                             Errno.ENOENT),
                     snapshots \ gone, left, deferred \ gone, bookmarks)}

\* why native lzc_bookmark cannot create bookmark b of snapshot snap; 0 if it can
BookmarkError(b, snap) ==
    IF b \notin ValidBookmarkNames THEN Errno.EINVAL
    ELSE IF snap \notin snapshots THEN Errno.ENOENT
    ELSE IF BookmarkFsOf(b) # FsOf(snap) THEN Errno.EINVAL
    ELSE IF b \in bookmarks THEN Errno.EEXIST
    ELSE 0

\* Native lzc_bookmark.  nv maps each wanted bookmark to its snapshot.
native_lzc_bookmark(nv) ==
    LET bad == {b \in DOMAIN nv : BookmarkError(b, nv[b]) # 0}
        errlist == [b \in bad |-> BookmarkError(b, nv[b])]
    IN  IF bad = {}
        THEN {Answer(0, EmptyErrlist, snapshots, holds, deferred,
                     bookmarks \cup DOMAIN nv)}
        ELSE {Fail(errlist[b], errlist) : b \in bad}

\* Native lzc_destroy_bookmarks: "Bookmarks that do not exist will be
\* silently ignored. This also includes the case where the filesystem
\* component of the bookmark name does not exist. However, an invalid
\* bookmark name will cause NameInvalid error".
native_lzc_destroy_bookmarks(nv) ==
    LET names == Range(nv)
        invalid == names \ ValidBookmarkNames
    IN  IF invalid # {}
        THEN {Fail(Errno.EINVAL, AllWith(invalid, Errno.EINVAL))}
        ELSE {Answer(0, EmptyErrlist, snapshots, holds, deferred,
                     bookmarks \ names)}

\* the filesystems lzc_create is asked for: "p/fs1/new" can be created,
\* the parent of "p/nx/new" does not exist, "p/fs1" exists already
CreateNames == {"p/fs1/new", "p/nx/new", "p/fs1"}

\* the clones lzc_clone is asked for: the parent of "p/nx/c1" does not exist
CloneNames == {"p/c1", "p/nx/c1"}

\* the parent of a dataset name: the part before the last '/'
ParentOf(name) ==
    CASE name = "p/fs1/new" -> "p/fs1"
      [] name = "p/nx/new" -> "p/nx"
      [] name = "p/fs1" -> "p"
      [] name = "p/c1" -> "p"
      [] name = "p/nx/c1" -> "p/nx"

\* the filesystems and volumes that exist
Datasets == Filesystems \cup created \cup {c[1] : c \in clones}

\* a property of a dataset that the engine accepts: "atime" with 0 or 1
ValidProp(e) == e.key = "atime" /\ e.type = "int" /\ e.val \in {0, 1}

\* the answer of a native call on one dataset: its status and the
\* datasets it leaves
AnswerOne(ret, c, cl) == [ret |-> ret, created |-> c, clones |-> cl]

FailOne(ret) == AnswerOne(ret, created, clones)

\* Native lzc_create: the dataset exists afterwards exactly when the call
\* succeeds; an existing name, a missing parent and an invalid property
\* (its name, its type or its value) make it fail.
native_lzc_create(name, ds_type, props) ==
    LET failures ==
            (IF name \in Datasets THEN {FailOne(Errno.EEXIST)} ELSE {})
            \cup (IF ParentOf(name) \notin Datasets
                  THEN {FailOne(Errno.ENOENT)} ELSE {})
            \cup (IF \E e \in props : ~ValidProp(e)
                  THEN {FailOne(Errno.EINVAL)} ELSE {})
    IN  IF failures # {} THEN failures
        ELSE {AnswerOne(0, created \cup {name}, clones)}

\* Native lzc_clone: "DatasetNotFound can mean that either a parent
\* filesystem of the target or the origin snapshot does not exist": both
\* are answered with ENOENT.
native_lzc_clone(name, origin, props) ==
    LET failures ==
            (IF name \in Datasets THEN {FailOne(Errno.EEXIST)} ELSE {})
            \cup (IF PoolOf(FsOf(origin)) # PoolOf(ParentOf(name))
                  THEN {FailOne(Errno.EXDEV)} ELSE {})
            \cup (IF ParentOf(name) \notin Datasets
                  THEN {FailOne(Errno.ENOENT)} ELSE {})
            \cup (IF origin \notin snapshots
                  THEN {FailOne(Errno.ENOENT)} ELSE {})
            \cup (IF \E e \in props : ~ValidProp(e)
                  THEN {FailOne(Errno.EINVAL)} ELSE {})
    IN  IF failures # {} THEN failures
        ELSE {AnswerOne(0, created, clones \cup {<<name, origin>>})}

-----------------------------------------------------------------------------
(* Outcomes of a wrapper call *)

\* the name of an error that is attributed to no target
NoName == ""

ReturnNone ==
    [kind |-> "return", exc |-> "", errors |-> {}, hasValue |-> FALSE,
     value |-> {}]

\* a wrapper returning errlist.keys()
ReturnKeys(keys) ==
    [kind |-> "return", exc |-> "", errors |-> {}, hasValue |-> TRUE,
     value |-> keys]

\* a raised exception; errors is the list of <<name, kind>> it carries
Raise(exc, errors) ==
    [kind |-> "raise", exc |-> exc, errors |-> errors, hasValue |-> FALSE,
     value |-> {}]

-----------------------------------------------------------------------------
(* _error_translation: the error classifier *)

\* the kind of fault a status code stands for, per operation
ErrorKind(op, code) ==
    CASE op = "lzc_snapshot" /\ code = Errno.EEXIST -> "SnapshotExists"
      [] op = "lzc_snapshot" /\ code = Errno.ENOENT -> "FilesystemNotFound"
      [] op = "lzc_snapshot" /\ code = Errno.EXDEV -> "MultipleSnapshots"
      [] op = "lzc_snapshot" /\ code = Errno.EINVAL -> "PropertyInvalid"
      [] op = "lzc_destroy_snaps" /\ code = Errno.EBUSY -> "SnapshotIsHeld"
      [] op = "lzc_destroy_snaps" /\ code = Errno.EEXIST -> "SnapshotIsCloned"
      [] op = "lzc_destroy_snaps" /\ code = Errno.ENOENT -> "PoolNotFound"
      [] op = "lzc_destroy_snaps" /\ code = Errno.EXDEV -> "PoolsDiffer"
      [] op = "lzc_hold" /\ code = Errno.EEXIST -> "HoldExists"
      [] op = "lzc_hold" /\ code = Errno.EBADF -> "BadHoldCleanupFD"
      [] op = "lzc_hold" /\ code = Errno.EXDEV -> "PoolsDiffer"
      [] op = "lzc_release" /\ code = Errno.EXDEV -> "PoolsDiffer"
      [] op = "lzc_bookmark" /\ code = Errno.EEXIST -> "BookmarkExists"
      [] op = "lzc_bookmark" /\ code = Errno.ENOENT -> "SnapshotNotFound"
      [] op = "lzc_bookmark" /\ code = Errno.EINVAL -> "NameInvalid"
      [] op = "lzc_destroy_bookmarks" /\ code = Errno.EINVAL -> "NameInvalid"
      [] op = "lzc_create" /\ code = Errno.EEXIST -> "FilesystemExists"
      [] op = "lzc_create" /\ code = Errno.ENOENT -> "ParentNotFound"
      [] op = "lzc_create" /\ code = Errno.EINVAL -> "PropertyInvalid"
      [] op = "lzc_clone" /\ code = Errno.EEXIST -> "FilesystemExists"
      [] op = "lzc_clone" /\ code = Errno.ENOENT -> "DatasetNotFound"
      [] op = "lzc_clone" /\ code = Errno.EINVAL -> "PropertyInvalid"
      [] op = "lzc_clone" /\ code = Errno.EXDEV -> "PoolsDiffer"
      [] op = "lzc_send" /\ code = Errno.ENOENT -> "SnapshotNotFound"
      [] op = "lzc_send" /\ code = Errno.EXDEV -> "SnapshotMismatch"
      [] OTHER -> "ZFSError"

\* a classifier that looks at the error list of a failed call only
HandleErrListOfFailuresOnly(ret, errlist, exc, op) ==
    IF ret = 0
    THEN ReturnNone
    ELSE IF DOMAIN errlist = {}
    THEN Raise(exc, {<<NoName, ErrorKind(op, ret)>>})
    ELSE Raise(exc, {<<n, ErrorKind(op, errlist[n])>> : n \in DOMAIN errlist})

\* The classifier of a batch call's status and error list:
\*  1. success and an empty error list: full success;
\*  2. success and a non-empty error list: soft misses, every code of which
\*     must be the "missing" code, any other is an internal consistency fault;
\*  3. failure and an empty error list: one call-global fault, from the status;
\*  4. failure and a non-empty error list: one fault record per entry.
HandleErrList(ret, errlist, exc, op) ==
    IF ret = 0
    THEN IF \A n \in DOMAIN errlist : errlist[n] = Errno.ENOENT
         THEN ReturnNone
         ELSE Raise("InternalConsistencyFault", {})
    ELSE IF DOMAIN errlist = {}
    THEN Raise(exc, {<<NoName, ErrorKind(op, ret)>>})
    ELSE Raise(exc, {<<n, ErrorKind(op, errlist[n])>> : n \in DOMAIN errlist})

lzc_snapshot_xlate_errors(ret, errlist, snaps, props) ==
    HandleErrList(ret, errlist, "SnapshotFailure", "lzc_snapshot")

lzc_destroy_snaps_xlate_errors(ret, errlist, snaps, defer) ==
    HandleErrList(ret, errlist, "SnapshotDestructionFailure", "lzc_destroy_snaps")

lzc_bookmark_xlate_errors(ret, errlist, bmarks) ==
    HandleErrList(ret, errlist, "BookmarkFailure", "lzc_bookmark")

lzc_destroy_bookmarks_xlate_errors(ret, errlist, bmarks) ==
    HandleErrList(ret, errlist, "BookmarkDestructionFailure",
                  "lzc_destroy_bookmarks")

lzc_hold_xlate_errors(ret, errlist, holdsArg, fd) ==
    HandleErrList(ret, errlist, "HoldFailure", "lzc_hold")

lzc_release_xlate_errors(ret, errlist, holdsArg) ==
    HandleErrList(ret, errlist, "HoldReleaseFailure", "lzc_release")

\* The classifier of the status of a call on one dataset: no fault on
\* success, else the one fault the operation's table gives for the status.
HandleErr(ret, op) ==
    IF ret = 0 THEN ReturnNone ELSE Raise(ErrorKind(op, ret), {})

lzc_create_xlate_error(ret, name, ds_type, props) == HandleErr(ret, "lzc_create")

lzc_clone_xlate_error(ret, name, origin, props) == HandleErr(ret, "lzc_clone")

-----------------------------------------------------------------------------
(* The boundary.  A wrapper reaches the native function through _lib.  An *)
(* engine that keeps its contract answers as documented; the wrappers are *)
(* also run against any status with any error list.                       *)

\* any status with any error list over the request's names, nothing done
AnyAnswers(names) ==
    {Fail(ret, errlist) :
        ret \in {0, Errno.EBUSY},
        errlist \in UNION {[S -> {Errno.ENOENT, Errno.EBUSY}] : S \in SUBSET names}}

Boundary(documented, names) ==
    IF engineKeepsContract THEN documented ELSE AnyAnswers(names)

\* the native call on one dataset: as documented, or any status, nothing done
BoundaryOne(documented) ==
    IF engineKeepsContract THEN documented
    ELSE {FailOne(ret) : ret \in {0, Errno.EBUSY}}

Commit(r) ==
    /\ snapshots' = r.snapshots
    /\ holds' = r.holds
    /\ deferred' = r.deferred
    /\ bookmarks' = r.bookmarks

\* the record of a call that has not been made
NoCall ==
    [op |-> "none", names |-> <<>>, name |-> "", origin |-> "",
     propsArg |-> {}, defer |-> FALSE,
     holdsArg |-> <<>>, fd |-> -1, typeError |-> FALSE,
     flags |-> <<>>, c_flags |-> {},
     nv |-> <<>>, nativeCalls |-> 0, ret |-> 0, errlist |-> EmptyErrlist,
     pre |-> [snapshots |-> {}, holds |-> {}, deferred |-> {}, bookmarks |-> {},
              created |-> {}, clones |-> {}],
     res |-> ReturnNone]

\* the library is initialized and the caller is not inside a call: the
\* calls are synchronous, one after the other
Ready == inited /\ last.op = "none"

Pre ==
    [snapshots |-> snapshots, holds |-> holds, deferred |-> deferred,
     bookmarks |-> bookmarks, created |-> created, clones |-> clones]

-----------------------------------------------------------------------------
(* The wrappers *)

\* a list of names passed on as it is, a name as often as it was given
DictKeysKeepingDuplicates(names) == names

\* { name: None for name in names }: the keys of the dict, each name once
DictKeys(names) ==
    LET keys[i \in 0..Len(names)] ==
            IF i = 0 THEN <<>>
            ELSE IF \E j \in 1..(i - 1) : names[j] = names[i]
                 THEN keys[i - 1]
                 ELSE Append(keys[i - 1], names[i])
    IN  keys[Len(names)]

\* if props is None: props = {}
PropsOrEmpty(props) == IF props.isNone THEN {} ELSE props.keys

\* the status of the native call dropped: no translation of it
lzc_snapshot_result_ignoring_ret(ret, errlist, snaps, props) == ReturnNone

\* the error list not passed to the translation
lzc_snapshot_result_without_errlist(ret, errlist, snaps, props) ==
    lzc_snapshot_xlate_errors(ret, EmptyErrlist, snaps, props)

\* a failure that names no snapshot put down to every snapshot of the call
lzc_snapshot_result_naming_targets(ret, errlist, snaps, props) ==
    IF ret # 0 /\ DOMAIN errlist = {}
    THEN Raise("SnapshotFailure",
               {<<n, ErrorKind("lzc_snapshot", ret)>> : n \in Range(snaps)})
    ELSE lzc_snapshot_xlate_errors(ret, errlist, snaps, props)

\* xlate.lzc_snapshot_xlate_errors(ret, errlist, snaps, props); the wrapper
\* returns nothing
lzc_snapshot_result(ret, errlist, snaps, props) ==
    lzc_snapshot_xlate_errors(ret, errlist, snaps, props)

lzc_snapshot(snaps, props) ==
    /\ Ready
    /\ LET snaps_dict == DictKeys(snaps)
           p == PropsOrEmpty(props)
       IN  \E r \in Boundary(native_lzc_snapshot(snaps_dict, p), Range(snaps)) :
               /\ Commit(r)
               /\ last' = [NoCall EXCEPT
                             !.op = "lzc_snapshot", !.names = snaps,
                             !.propsArg = p, !.nv = snaps_dict,
                             !.nativeCalls = 1, !.ret = r.ret,
                             !.errlist = r.errlist, !.pre = Pre,
                             !.res = lzc_snapshot_result(r.ret, r.errlist, snaps, p)]
               /\ UNCHANGED <<initVars, datasetVars, sideVars>>

\* the keys of the error list returned, as lzc_hold and lzc_release do
lzc_destroy_snaps_result_returning_keys(ret, errlist, snaps, defer) ==
    LET x == lzc_destroy_snaps_xlate_errors(ret, errlist, snaps, defer)
    IN  IF x.kind = "raise" THEN x ELSE ReturnKeys(DOMAIN errlist)

\* xlate.lzc_destroy_snaps_xlate_errors(ret, errlist, snaps, defer); the
\* wrapper returns nothing
lzc_destroy_snaps_result(ret, errlist, snaps, defer) ==
    lzc_destroy_snaps_xlate_errors(ret, errlist, snaps, defer)

lzc_destroy_snaps(snaps, defer) ==
    /\ Ready
    /\ LET snaps_dict == DictKeys(snaps)
       IN  \E r \in Boundary(native_lzc_destroy_snaps(snaps_dict, defer), Range(snaps)) :
               /\ Commit(r)
               /\ last' = [NoCall EXCEPT
                             !.op = "lzc_destroy_snaps", !.names = snaps,
                             !.defer = defer, !.nv = snaps_dict,
                             !.nativeCalls = 1, !.ret = r.ret,
                             !.errlist = r.errlist, !.pre = Pre,
                             !.res = lzc_destroy_snaps_result(r.ret, r.errlist,
                                                              snaps, defer)]
               /\ UNCHANGED <<initVars, datasetVars, sideVars>>

\* the bookmarks that failed handed back in place of an exception
lzc_bookmark_result_returning_failures(ret, errlist, bmarks) ==
    IF ret # 0 THEN ReturnKeys(DOMAIN errlist) ELSE ReturnNone

lzc_bookmark_result(ret, errlist, bmarks) ==
    lzc_bookmark_xlate_errors(ret, errlist, bmarks)

lzc_bookmark(bmarks) ==
    /\ Ready
    /\ \E r \in Boundary(native_lzc_bookmark(bmarks), DOMAIN bmarks) :
           /\ Commit(r)
           /\ last' = [NoCall EXCEPT
                         !.op = "lzc_bookmark", !.holdsArg = bmarks,
                         !.nativeCalls = 1, !.ret = r.ret,
                         !.errlist = r.errlist, !.pre = Pre,
                         !.res = lzc_bookmark_result(r.ret, r.errlist, bmarks)]
           /\ UNCHANGED <<initVars, datasetVars, sideVars>>

lzc_destroy_bookmarks_result(ret, errlist, bmarks) ==
    lzc_destroy_bookmarks_xlate_errors(ret, errlist, bmarks)

lzc_destroy_bookmarks(bmarks) ==
    /\ Ready
    /\ LET bmarks_dict == DictKeys(bmarks)
       IN  \E r \in Boundary(native_lzc_destroy_bookmarks(bmarks_dict), Range(bmarks)) :
               /\ Commit(r)
               /\ last' = [NoCall EXCEPT
                             !.op = "lzc_destroy_bookmarks", !.names = bmarks,
                             !.nv = bmarks_dict,
                             !.nativeCalls = 1, !.ret = r.ret,
                             !.errlist = r.errlist, !.pre = Pre,
                             !.res = lzc_destroy_bookmarks_result(r.ret, r.errlist,
                                                                  bmarks)]
               /\ UNCHANGED <<initVars, datasetVars, sideVars>>

\* assert all(x == errno.ENOENT for x in errlist.itervalues())
AllMissing(errlist) == \A n \in DOMAIN errlist : errlist[n] = Errno.ENOENT

\* the return statement left out
lzc_hold_result_returning_nothing(ret, errlist, holdsArg, fd) ==
    lzc_hold_xlate_errors(ret, errlist, holdsArg, fd)

\* a non-empty error list taken for a failure whatever the status
lzc_hold_result_failing_on_misses(ret, errlist, holdsArg, fd) ==
    IF ret = 0 /\ DOMAIN errlist # {}
    THEN Raise("HoldFailure",
               {<<n, ErrorKind("lzc_hold", errlist[n])>> : n \in DOMAIN errlist})
    ELSE LET x == lzc_hold_xlate_errors(ret, errlist, holdsArg, fd)
         IN  IF x.kind = "raise" THEN x ELSE ReturnKeys(DOMAIN errlist)

\* xlate.lzc_hold_xlate_errors(ret, errlist, holds, fd); the assertion;
\* return errlist.keys()
lzc_hold_result(ret, errlist, holdsArg, fd) ==
    LET x == lzc_hold_xlate_errors(ret, errlist, holdsArg, fd)
    IN  IF x.kind = "raise" THEN x
        ELSE IF ~AllMissing(errlist) THEN Raise("AssertionError", {})
        ELSE ReturnKeys(DOMAIN errlist)

\* if fd is None: fd = -1
FdOrMinusOne(fd) == IF fd.isNone THEN -1 ELSE fd.fd

lzc_hold(holdsArg, fd) ==
    /\ Ready
    /\ LET nfd == FdOrMinusOne(fd)
       IN  \E r \in Boundary(native_lzc_hold(holdsArg, nfd), DOMAIN holdsArg) :
               /\ Commit(r)
               /\ last' = [NoCall EXCEPT
                             !.op = "lzc_hold", !.holdsArg = holdsArg,
                             !.fd = nfd, !.nativeCalls = 1, !.ret = r.ret,
                             !.errlist = r.errlist, !.pre = Pre,
                             !.res = lzc_hold_result(r.ret, r.errlist, holdsArg, nfd)]
               /\ UNCHANGED <<initVars, datasetVars, sideVars>>

\* only the first tag of each list taken
HoldsDictOfFirstTags(holdsArg) ==
    [s \in DOMAIN holdsArg |->
        IF holdsArg[s].tags = <<>> THEN {} ELSE {holdsArg[s].tags[1]}]

\* holds_dict[snap] = {hold: None for hold in hold_list}
HoldsDict(holdsArg) == [s \in DOMAIN holdsArg |-> Range(holdsArg[s].tags)]

\* xlate.lzc_release_xlate_errors(ret, errlist, holds); the assertion;
\* return errlist.keys()
lzc_release_result(ret, errlist, holdsArg) ==
    LET x == lzc_release_xlate_errors(ret, errlist, holdsArg)
    IN  IF x.kind = "raise" THEN x
        ELSE IF ~AllMissing(errlist) THEN Raise("AssertionError", {})
        ELSE ReturnKeys(DOMAIN errlist)

lzc_release(holdsArg) ==
    /\ Ready
    /\ IF \E s \in DOMAIN holdsArg : ~holdsArg[s].isList
       THEN \* raise TypeError('holds must be in a list')
            /\ last' = [NoCall EXCEPT
                          !.op = "lzc_release", !.typeError = TRUE, !.pre = Pre,
                          !.res = Raise("TypeError", {})]
            /\ UNCHANGED <<engineVars, initVars, datasetVars, sideVars>>
       ELSE LET holds_dict == HoldsDict(holdsArg)
            IN  \E r \in Boundary(native_lzc_release(holds_dict), DOMAIN holdsArg) :
                    /\ Commit(r)
                    /\ last' = [NoCall EXCEPT
                                  !.op = "lzc_release",
                                  !.holdsArg = [s \in DOMAIN holdsArg |->
                                                   Range(holdsArg[s].tags)],
                                  !.nv = holds_dict,
                                  !.nativeCalls = 1, !.ret = r.ret,
                                  !.errlist = r.errlist, !.pre = Pre,
                                  !.res = lzc_release_result(r.ret, r.errlist,
                                                             holdsArg)]
                    /\ UNCHANGED <<initVars, datasetVars, sideVars>>

\* if props is None: props = {}
PropsDictOrEmpty(props) == IF props.isNone THEN {} ELSE props.entries

\* the status of the native call dropped: no translation of it
lzc_create_result_ignoring_ret(ret, name, ds_type, props) == ReturnNone

\* xlate.lzc_create_xlate_error(ret, name, ds_type, props); the wrapper
\* returns nothing
lzc_create_result(ret, name, ds_type, props) ==
    lzc_create_xlate_error(ret, name, ds_type, props)

lzc_create(name, ds_type, props) ==
    /\ Ready
    /\ IF ds_type \notin {"zfs", "zvol"}
       THEN \* raise exceptions.DatasetTypeInvalid(ds_type)
            /\ last' = [NoCall EXCEPT
                          !.op = "lzc_create", !.name = name, !.pre = Pre,
                          !.res = Raise("DatasetTypeInvalid", {})]
            /\ UNCHANGED <<engineVars, initVars, datasetVars, sideVars>>
       ELSE LET p == PropsDictOrEmpty(props)
            IN  \E r \in BoundaryOne(native_lzc_create(name, ds_type, p)) :
                    /\ created' = r.created
                    /\ clones' = r.clones
                    /\ last' = [NoCall EXCEPT
                                  !.op = "lzc_create", !.name = name,
                                  !.propsArg = p,
                                  !.nativeCalls = 1, !.ret = r.ret, !.pre = Pre,
                                  !.res = lzc_create_result(r.ret, name, ds_type, p)]
                    /\ UNCHANGED <<engineVars, initVars, sideVars>>

\* ENOENT taken for a missing origin snapshot
lzc_clone_result_guessing(ret, name, origin, props) ==
    IF ret = Errno.ENOENT
    THEN Raise("SnapshotNotFound", {})
    ELSE lzc_clone_xlate_error(ret, name, origin, props)

\* xlate.lzc_clone_xlate_error(ret, name, origin, props); the wrapper
\* returns nothing
lzc_clone_result(ret, name, origin, props) ==
    lzc_clone_xlate_error(ret, name, origin, props)

lzc_clone(name, origin, props) ==
    /\ Ready
    /\ LET p == PropsDictOrEmpty(props)
       IN  \E r \in BoundaryOne(native_lzc_clone(name, origin, p)) :
               /\ created' = r.created
               /\ clones' = r.clones
               /\ last' = [NoCall EXCEPT
                             !.op = "lzc_clone", !.name = name,
                             !.origin = origin, !.propsArg = p,
                             !.nativeCalls = 1, !.ret = r.ret, !.pre = Pre,
                             !.res = lzc_clone_result(r.ret, name, origin, p)]
               /\ UNCHANGED <<engineVars, initVars, sideVars>>

\* the caller has the outcome of its call and goes on
ResultTaken ==
    /\ last.op # "none"
    /\ last' = NoCall
    /\ UNCHANGED <<engineVars, initVars, datasetVars, sideVars>>

-----------------------------------------------------------------------------
(* The uncommitted extensions: _uncommitted and is_supported *)

\* the functions of the C library that the uncommitted wrappers look for
CFunctions ==
    {"lzc_list", "lzc_get_props", "lzc_list_children", "lzc_list_snaps",
     "lzc_promote"}

\* no function: None
None == "None"

\* a Python function object: its __name__ and its _check_func attribute,
\* the name under which the function it refers to is bound, or None
FunctionObject(name, check_func) == [name |-> name, check_func |-> check_func]

\* the function that def lzc_x binds before the decorator is applied;
\* nothing gives it a _check_func attribute
Undecorated(name) == FunctionObject(name, None)

\* the decorated API functions: @_uncommitted(check_func) def name
UncommittedNames ==
    {"lzc_promote", "lzc_list", "lzc_get_props", "lzc_list_children",
     "lzc_list_snaps"}

\* the check_func each decorator is given
CheckFuncOf(name) ==
    IF name \in {"lzc_get_props", "lzc_list_children", "lzc_list_snaps"}
    THEN "lzc_list"
    ELSE None

\* the module's global of a name: _f, which functools.wraps gives the
\* __name__ of func, with _f._check_func = check_func if that is not None
Global(name) == FunctionObject(name, CheckFuncOf(name))

\* getattr(_lib, fname, None) is not None
LibHas(fname) == fname \in libProvides

\* is_supported(func): the checks of the name pass for every function of
\* the module; a function with a _check_func is supported when that is
RECURSIVE is_supported(_)
is_supported(func) ==
    IF func.check_func # None
    THEN is_supported(Global(func.check_func))
    ELSE LibHas(func.name)

\* the Python function that the body of a function calls first, or None
\* when it goes to the C function of its own name
CallsFirst(name) ==
    IF name \in {"lzc_get_props", "lzc_list_children", "lzc_list_snaps"}
    THEN "lzc_list"
    ELSE None

\* _f(*args, **kwargs): if not is_supported(func): raise
\* NotImplementedError(func.__name__); return func(*args, **kwargs), where
\* func is the undecorated function the decorator was applied to
RECURSIVE uncommitted_f(_)
uncommitted_f(name) ==
    IF ~is_supported(Undecorated(name))
    THEN "NotImplementedError"
    ELSE IF CallsFirst(name) # None
         THEN uncommitted_f(CallsFirst(name))
         ELSE "proceeds"

NotCalled == [op |-> "none", func |-> None, outcome |-> "", supported |-> FALSE]

\* a caller calls a decorated function
CallUncommitted(name) ==
    /\ called' = [op |-> "call", func |-> name,
                  outcome |-> uncommitted_f(name), supported |-> FALSE]
    /\ UNCHANGED <<engineVars, last, initVars, datasetVars,
                   engineKeepsContract, libProvides, scope, codec, listing>>

\* a caller asks is_supported(f) of a decorated function
AskSupported(name) ==
    /\ called' = [op |-> "is_supported", func |-> name, outcome |-> "",
                  supported |-> is_supported(Global(name))]
    /\ UNCHANGED <<engineVars, last, initVars, datasetVars,
                   engineKeepsContract, libProvides, scope, codec, listing>>

-----------------------------------------------------------------------------
(* One execution of a wrapper, statement by statement: the scope of its    *)
(* output list (with nvlist_out(errlist) as errlist_nvlist), its native    *)
(* call and the translation of the status.                                 *)

\* the wrappers whose native call fills an output list
OutputListOps ==
    {"lzc_snapshot", "lzc_destroy_snaps", "lzc_bookmark", "lzc_get_bookmarks",
     "lzc_destroy_bookmarks", "lzc_hold", "lzc_release", "lzc_get_holds"}

\* the wrappers whose native call has no output list
PlainOps == {"lzc_create", "lzc_clone", "lzc_send", "lzc_receive"}

\* the native call made after the with block has ended
WrapperStepsCallingOutsideScope(op) ==
    IF op \in OutputListOps
    THEN <<"enter", "exit", "call", "xlate">>
    ELSE <<"call", "xlate">>

\* the native call made a second time
WrapperStepsCallingTwice(op) ==
    IF op \in OutputListOps
    THEN <<"enter", "call", "call", "exit", "xlate">>
    ELSE <<"call", "call", "xlate">>

\* the statements of a wrapper, in order: the with block is entered, the
\* native call is made in it, the block is left, the status is translated
WrapperSteps(op) ==
    IF op \in OutputListOps
    THEN <<"enter", "call", "exit", "xlate">>
    ELSE <<"call", "xlate">>

\* what a native call can put in its output list
OutputContents == {{}, {"p@s1"}, {"p@s1", "p/fs1@s1"}}

\* the statuses of a native call
Statuses == {0, Errno.EBUSY}

NoScope ==
    [op |-> "none", pc |-> "idle", i |-> 0,
     handle |-> "none", allocs |-> 0, frees |-> 0, decodes |-> 0,
     content |-> {}, sink |-> {}, usedOutside |-> FALSE,
     nativeCalls |-> 0, ret |-> 0, raised |-> "", outcome |-> ""]

\* the statement the wrapper is at
Step ==
    IF scope.pc = "run" /\ scope.i \in 1..Len(WrapperSteps(scope.op))
    THEN WrapperSteps(scope.op)[scope.i]
    ELSE "none"

\* an exception leaves the function; a with block that is open is left first
Raising(sc, exc) ==
    [sc EXCEPT !.raised = exc,
               !.pc = IF sc.handle = "allocated" THEN "unwind" ELSE "done",
               !.outcome = IF sc.handle = "allocated" THEN "" ELSE "raise"]

\* the output list is freed only when the block ends without an exception
nvlist_out_exit_unless_raised(sc) ==
    IF sc.raised # "" THEN sc
    ELSE [sc EXCEPT !.handle = "freed", !.frees = @ + 1,
                    !.decodes = @ + 1, !.sink = sc.content]

\* nvlist_out, entering: an empty output list is allocated
nvlist_out_enter(sc) ==
    [sc EXCEPT !.handle = "allocated", !.allocs = @ + 1]

\* nvlist_out, leaving, with or without an exception: the contents of the
\* output list are decoded into the caller's dict and the list is freed
nvlist_out_exit(sc) ==
    [sc EXCEPT !.handle = "freed", !.frees = @ + 1,
               !.decodes = @ + 1, !.sink = sc.content]

\* a wrapper is called
WrapperCalled(op) ==
    /\ scope.pc = "idle"
    /\ scope' = [NoScope EXCEPT !.op = op, !.pc = "run", !.i = 1]
    /\ UNCHANGED <<engineVars, last, initVars, datasetVars,
                   engineKeepsContract, libProvides, called, codec, listing>>

\* with nvlist_out(errlist) as errlist_nvlist:
EnterScope ==
    /\ Step = "enter"
    /\ scope' = [nvlist_out_enter(scope) EXCEPT !.i = @ + 1]
    /\ UNCHANGED <<engineVars, last, initVars, datasetVars,
                   engineKeepsContract, libProvides, called, codec, listing>>

\* ret = _lib.lzc_x(..., errlist_nvlist): the native call returns a status
\* and has filled the output list it was given
NativeCall ==
    /\ Step = "call"
    /\ \E ret \in Statuses, content \in OutputContents :
           scope' = [scope EXCEPT
                       !.nativeCalls = @ + 1,
                       !.ret = ret,
                       !.content = IF scope.handle = "allocated"
                                   THEN content ELSE @,
                       !.usedOutside = @ \/ (scope.op \in OutputListOps
                                               /\ scope.handle # "allocated"),
                       !.i = @ + 1]
    /\ UNCHANGED <<engineVars, last, initVars, datasetVars,
                   engineKeepsContract, libProvides, called, codec, listing>>

\* _lib.lzc_x: the attribute of the library handle cannot be had, the
\* library is not initialized; no native call is made
BoundaryRaises ==
    /\ Step = "call"
    /\ scope' = Raising(scope, "ZFSInitializationFailed")
    /\ UNCHANGED <<engineVars, last, initVars, datasetVars,
                   engineKeepsContract, libProvides, called, codec, listing>>

\* the end of the with block, reached by its last statement or by an
\* exception
ExitScope ==
    /\ Step = "exit" \/ scope.pc = "unwind"
    /\ LET sc == nvlist_out_exit(scope)
       IN  scope' = IF scope.raised # ""
                    THEN [sc EXCEPT !.pc = "done", !.outcome = "raise"]
                    ELSE [sc EXCEPT !.i = @ + 1]
    /\ UNCHANGED <<engineVars, last, initVars, datasetVars,
                   engineKeepsContract, libProvides, called, codec, listing>>

\* xlate.lzc_x_xlate_errors(ret, errlist, ...): raises on a failure status
Xlate ==
    /\ Step = "xlate"
    /\ scope' = IF scope.ret # 0
                 THEN Raising(scope, "fault")
                 ELSE [scope EXCEPT !.i = @ + 1]
    /\ UNCHANGED <<engineVars, last, initVars, datasetVars,
                   engineKeepsContract, libProvides, called, codec, listing>>

\* the end of the function body
WrapperReturns ==
    /\ scope.pc = "run"
    /\ scope.i > Len(WrapperSteps(scope.op))
    /\ scope' = [scope EXCEPT !.pc = "done", !.outcome = "return"]
    /\ UNCHANGED <<engineVars, last, initVars, datasetVars,
                   engineKeepsContract, libProvides, called, codec, listing>>

\* the caller has the outcome and goes on
CallerGoesOn ==
    /\ scope.pc = "done"
    /\ scope' = NoScope
    /\ UNCHANGED <<engineVars, last, initVars, datasetVars,
                   engineKeepsContract, libProvides, called, codec, listing>>

NextScope ==
    \/ \E op \in OutputListOps \cup PlainOps : WrapperCalled(op)
    \/ EnterScope
    \/ NativeCall
    \/ BoundaryRaises
    \/ ExitScope
    \/ Xlate
    \/ WrapperReturns
    \/ CallerGoesOn

-----------------------------------------------------------------------------
(* The List codec: nvlist_in encodes a dict, nvlist_out decodes into one.  *)
(* A List is a sequence of entries [key, val] in insertion order; a value  *)
(* carries its type, and for a sequence the type of its elements.  The     *)
(* encoding is a sequence of tokens: a count, then per entry the key, the  *)
(* type tag and the payload.                                               *)

Value(type, elem, n, s, items) ==
    [type |-> type, elem |-> elem, n |-> n, s |-> s, items |-> items]

Entry(key, val) == [key |-> key, val |-> val]

Flag == Value("flag", "", 0, <<>>, <<>>)

Boolean(b) == Value("boolean", "", IF b THEN 1 ELSE 0, <<>>, <<>>)

IntTypes ==
    {"int8", "uint8", "int16", "uint16", "int32", "uint32", "int64", "uint64"}

Integer(type, n) == Value(type, "", n, <<>>, <<>>)

\* a byte string, as the sequence of its bytes; a zero byte is legal
ByteString(bytes) == Value("string", "", 0, bytes, <<>>)

NestedList(entries) == Value("list", "", 0, <<>>, entries)

\* a homogeneous sequence: the type of the elements and the elements
Array(elem, vals) ==
    Value("array", elem, 0, <<>>, [i \in 1..Len(vals) |-> Entry("", vals[i])])

Token(k, s, n) == [k |-> k, s |-> s, n |-> n]

\* an integer payload without regard to its sign
DecodeIntegerUnsigned(type, n) == n

\* the payload of an integer of a fixed width: two's complement in 8 and
\* in 16 bits; the wider integers of the model are small and stored as
\* they are
EncodeInteger(type, n) ==
    IF type \in {"int8", "uint8"} THEN n % 256
    ELSE IF type \in {"int16", "uint16"} THEN n % 65536
    ELSE n

DecodeInteger(type, n) ==
    IF type = "int8" /\ n >= 128 THEN n - 256
    ELSE IF type = "int16" /\ n >= 32768 THEN n - 65536
    ELSE n

RECURSIVE EncodePayload(_)
RECURSIVE EncodeEntries(_)
RECURSIVE EncodeElements(_)

\* the payload of a value: nothing for a flag, the length and the bytes of
\* a byte string, the count and the entries of a nested List, the element
\* type, the count and the payloads of a sequence
EncodePayload(v) ==
    CASE v.type = "flag" -> <<>>
      [] v.type = "boolean" -> <<Token("int", "", v.n)>>
      [] v.type \in IntTypes -> <<Token("int", "", EncodeInteger(v.type, v.n))>>
      [] v.type = "string" ->
            <<Token("len", "", Len(v.s))>>
                \o [i \in 1..Len(v.s) |-> Token("byte", "", v.s[i])]
      [] v.type = "list" ->
            <<Token("count", "", Len(v.items))>> \o EncodeEntries(v.items)
      [] v.type = "array" ->
            <<Token("elem", v.elem, 0), Token("count", "", Len(v.items))>>
                \o EncodeElements(v.items)

EncodeEntries(es) ==
    IF es = <<>> THEN <<>>
    ELSE <<Token("key", es[1].key, 0), Token("tag", es[1].val.type, 0)>>
             \o EncodePayload(es[1].val) \o EncodeEntries(Tail(es))

EncodeElements(es) ==
    IF es = <<>> THEN <<>>
    ELSE EncodePayload(es[1].val) \o EncodeElements(Tail(es))

\* nvlist_in(dict): the encoding of a List
Encode(list) == <<Token("count", "", Len(list))>> \o EncodeEntries(list)

RECURSIVE DecodePayload(_, _, _)
RECURSIVE DecodeEntries(_, _, _)
RECURSIVE DecodeElements(_, _, _, _)

\* the value of the given type that starts at pos, and where it ends
DecodePayload(buf, pos, type) ==
    CASE type = "flag" -> [val |-> Flag, pos |-> pos]
      [] type = "boolean" ->
            [val |-> Value("boolean", "", buf[pos].n, <<>>, <<>>), pos |-> pos + 1]
      [] type \in IntTypes ->
            [val |-> Integer(type, DecodeInteger(type, buf[pos].n)),
             pos |-> pos + 1]
      [] type = "string" ->
            LET len == buf[pos].n
            IN  [val |-> ByteString([i \in 1..len |-> buf[pos + i].n]),
                 pos |-> pos + 1 + len]
      [] type = "list" ->
            LET r == DecodeEntries(buf, pos + 1, buf[pos].n)
            IN  [val |-> NestedList(r.val), pos |-> r.pos]
      [] type = "array" ->
            LET elem == buf[pos].s
                r == DecodeElements(buf, pos + 2, elem, buf[pos + 1].n)
            IN  [val |-> Value("array", elem, 0, <<>>, r.val), pos |-> r.pos]

DecodeEntries(buf, pos, count) ==
    IF count = 0 THEN [val |-> <<>>, pos |-> pos]
    ELSE LET r == DecodePayload(buf, pos + 2, buf[pos + 1].s)
             rest == DecodeEntries(buf, r.pos, count - 1)
         IN  [val |-> <<Entry(buf[pos].s, r.val)>> \o rest.val, pos |-> rest.pos]

DecodeElements(buf, pos, elem, count) ==
    IF count = 0 THEN [val |-> <<>>, pos |-> pos]
    ELSE LET r == DecodePayload(buf, pos, elem)
             rest == DecodeElements(buf, r.pos, elem, count - 1)
         IN  [val |-> <<Entry("", r.val)>> \o rest.val, pos |-> rest.pos]

\* nvlist_out(dict): the List decoded from an encoding
Decode(buf) == DecodeEntries(buf, 2, buf[1].n).val

\* the scalar values of the model: one of each kind, the integers at the
\* edges of their widths
Scalars ==
    {Flag, Boolean(TRUE), Boolean(FALSE), Integer("uint8", 255),
     Integer("int8", -1), Integer("int16", -32768), Integer("uint32", 1),
     Integer("int64", -5), ByteString(<<120, 0, 121>>), ByteString(<<>>)}

\* homogeneous sequences: of byte strings, of integers, of Lists, empty
Arrays ==
    {Array("string", <<ByteString(<<120>>), ByteString(<<121>>),
                       ByteString(<<122>>)>>),
     Array("int8", <<Integer("int8", -128), Integer("int8", 127)>>),
     Array("list", <<NestedList(<<Entry("a", Integer("uint32", 1))>>),
                     NestedList(<<>>)>>),
     Array("uint64", <<>>)}

Keys == {"a", "b", "c"}

\* the values of an entry: scalars, sequences and Lists nested once
EntryValues ==
    Scalars \cup Arrays
        \cup {NestedList(<<Entry(k, v)>>) : k \in {"a"}, v \in Scalars \cup Arrays}

\* the Lists of at most MaxEntries entries with distinct keys
ValueTrees ==
    {t \in SeqsUpTo({Entry(k, v) : k \in Keys, v \in EntryValues}, MaxEntries) :
        \A i, j \in DOMAIN t : i # j => t[i].key # t[j].key}

NoCodec == [stage |-> "none", v |-> <<>>, buf |-> <<>>, out |-> <<>>]

\* nvlist_in(v)
EncodeList ==
    /\ codec.stage = "value"
    /\ codec' = [codec EXCEPT !.stage = "encoded", !.buf = Encode(codec.v)]
    /\ UNCHANGED <<engineVars, last, initVars, datasetVars,
                   engineKeepsContract, libProvides, called, scope, listing>>

\* with nvlist_out(out): the buffer decoded into the caller's dict
DecodeList ==
    /\ codec.stage = "encoded"
    /\ codec' = [codec EXCEPT !.stage = "decoded", !.out = Decode(codec.buf)]
    /\ UNCHANGED <<engineVars, last, initVars, datasetVars,
                   engineKeepsContract, libProvides, called, scope, listing>>

NextCodec == EncodeList \/ DecodeList

-----------------------------------------------------------------------------
(* lzc_list and its readers: lzc_get_props, lzc_list_children and         *)
(* lzc_list_snaps.  lzc_list opens a pipe and hands its write end to the  *)
(* engine, which writes records to it: a header (size, err) and, for a    *)
(* size that is not zero, a packed List with 'name' and 'properties'.     *)

ListingOps == {"lzc_get_props", "lzc_list_children", "lzc_list_snaps"}

\* the dataset asked for: "p/fs1" exists, "p/nx" does not
ListNames == {"p/fs1", "p/nx"}

\* the 'mountpoint' of the properties of a record: not there, or its
\* value and its source
Mountpoint(set, source, value) ==
    [set |-> set, source |-> source, value |-> value]

Properties(id, mountpoint) == [id |-> id, mountpoint |-> mountpoint]

NoProperties == Properties(0, Mountpoint(FALSE, "", ""))

\* a record of the pipe: the size and the err of its header, the name and
\* the properties of its List, the status of nvlist_unpack on its data
Record(size, err, name, properties, unpack) ==
    [size |-> size, err |-> err, name |-> name, properties |-> properties,
     unpack |-> unpack]

\* the records of the model: the end record, a record carrying an error
\* with and without data, three datasets (two of the same name, the
\* mountpoint not set, inherited from "p", received), data that does not
\* unpack
PipeRecords ==
    {Record(0, 0, "", NoProperties, 0),
     Record(1, Errno.ENOENT, "", NoProperties, 0),
     Record(0, Errno.ENOENT, "", NoProperties, 0),
     Record(1, 0, "p/fs1", Properties(1, Mountpoint(FALSE, "", "")), 0),
     Record(1, 0, "p/fs1", Properties(2, Mountpoint(TRUE, "p", "/mnt")), 0),
     Record(1, 0, "p/fs1/a", Properties(3, Mountpoint(TRUE, "$recvd", "/r")), 0),
     Record(1, 0, "", NoProperties, Errno.EINVAL)}

\* name[len(mountpoint_src):]
NameAfter(name, source) ==
    CASE name = "p/fs1" /\ source = "p" -> "/fs1"
      [] name = "p/nx" /\ source = "p" -> "/nx"
      [] OTHER -> ""

\* what lzc_get_props makes of result['properties']: the values of the
\* properties, and the mountpoint: '/' + name where it is not set, its
\* value where its source starts with '$', else its value followed by
\* the part of the name after the source
PropsReturned(properties, name) ==
    [id |-> properties.id,
     mountpoint |->
        IF ~properties.mountpoint.set
        THEN [value |-> "/", rest |-> name]
        ELSE IF properties.mountpoint.source = "$recvd"
        THEN [value |-> properties.mountpoint.value, rest |-> ""]
        ELSE [value |-> properties.mountpoint.value,
              rest |-> NameAfter(name, properties.mountpoint.source)]]

NoValue == PropsReturned(NoProperties, "")

ListingOutcome(kind, exc, value) == [kind |-> kind, exc |-> exc, value |-> value]

NoListing ==
    [op |-> "none", pc |-> "idle", name |-> "", ret |-> 0, listed |-> FALSE,
     stream |-> <<>>, pos |-> 0, open |-> {},
     closes |-> [rfd |-> 0, wfd |-> 0],
     entry |-> None, result |-> NoProperties, pending |-> "", exit |-> "",
     yielded |-> <<>>, outcome |-> ListingOutcome("", "", NoValue)]

\* Native lzc_list: ENOENT for a dataset that does not exist, else the
\* records written to the pipe
native_lzc_list(name, options) ==
    IF name \notin Datasets
    THEN {[ret |-> Errno.ENOENT, stream |-> <<>>]}
    ELSE {[ret |-> 0, stream |-> st] : st \in SeqsUpTo(PipeRecords, MaxRecords)}

lzc_list_xlate_error(ret, name, options) == HandleErr(ret, "lzc_list")

lzc_get_props_xlate_error(err, name) == HandleErr(err, "lzc_get_props")

lzc_list_children_xlate_error(err, name) == HandleErr(err, "lzc_list_children")

lzc_list_snaps_xlate_error(err, name) == HandleErr(err, "lzc_list_snaps")

\* xlate.lzc_X_xlate_error(err, name) of the reader X
record_xlate_error(op, err, name) ==
    CASE op = "lzc_get_props" -> lzc_get_props_xlate_error(err, name)
      [] op = "lzc_list_children" -> lzc_list_children_xlate_error(err, name)
      [] op = "lzc_list_snaps" -> lzc_list_snaps_xlate_error(err, name)

\* a wrapper of lzc_list is called
ListingCalled(op, name) ==
    /\ Ready
    /\ listing.pc = "idle"
    /\ listing' = [NoListing EXCEPT !.op = op, !.name = name, !.pc = "lzc_list"]
    /\ UNCHANGED <<engineVars, last, initVars, datasetVars,
                   engineKeepsContract, libProvides, called, scope, codec>>

\* (fd, other_fd) = lzc_list(name, {...}): the pipe is opened, the native
\* call made and its status translated; the descriptors are returned when
\* that does not raise.  lzc_get_props goes on into its loop; the other
\* two return an iterator that has not started.
lzc_list ==
    /\ listing.pc = "lzc_list"
    /\ \E a \in native_lzc_list(listing.name, listing.op) :
          LET x == lzc_list_xlate_error(a.ret, listing.name, listing.op)
          IN  listing' =
                IF x.kind = "raise"
                THEN [listing EXCEPT
                        !.open = {"rfd", "wfd"}, !.ret = a.ret, !.pc = "over",
                        !.outcome = ListingOutcome("raise", x.exc, NoValue)]
                ELSE [listing EXCEPT
                        !.open = {"rfd", "wfd"}, !.ret = a.ret,
                        !.listed = TRUE, !.stream = a.stream,
                        !.pc = IF listing.op = "lzc_get_props"
                               THEN "loop" ELSE "created"]
    /\ UNCHANGED <<engineVars, last, initVars, datasetVars,
                   engineKeepsContract, libProvides, called, scope, codec>>

\* the loop left for the finally clause
Leave(l, exit, pending) ==
    [l EXCEPT !.pc = "finally", !.exit = exit, !.pending = pending]

\* the size of the header looked at before its err
read_record_size_before_err(l) ==
    IF l.pos = Len(l.stream) THEN Leave(l, "eof", "")
    ELSE LET rec == l.stream[l.pos + 1]
             r == [l EXCEPT !.pos = l.pos + 1]
             x == record_xlate_error(l.op, rec.err, l.name)
         IN  IF rec.size = 0 THEN Leave(r, "zero", "")
             ELSE IF x.kind = "raise" THEN Leave(r, "error", x.exc)
             ELSE IF rec.unpack # 0 THEN Leave(r, "unpack", "ZFSError")
             ELSE IF l.op = "lzc_get_props"
             THEN IF rec.name = l.name
                  THEN Leave([r EXCEPT !.entry = rec.name,
                                       !.result = rec.properties], "match", "")
                  ELSE [r EXCEPT !.entry = None, !.result = rec.properties]
             ELSE IF rec.name # l.name
                  THEN [r EXCEPT !.pc = "suspended",
                                 !.yielded = Append(l.yielded, rec.name)]
                  ELSE r

\* One turn of the while loop: the header is read; no bytes end the loop;
\* the err of the header is translated and raises if it is not zero; a
\* size of zero ends the loop; the data is read and unpacked, which
\* raises ZFSError for a status that is not zero.  lzc_get_props ends
\* the loop at a record of the name asked for; the iterators yield the
\* name of a record of another name.
read_record(l) ==
    IF l.pos = Len(l.stream) THEN Leave(l, "eof", "")
    ELSE LET rec == l.stream[l.pos + 1]
             r == [l EXCEPT !.pos = l.pos + 1]
             x == record_xlate_error(l.op, rec.err, l.name)
         IN  IF x.kind = "raise" THEN Leave(r, "error", x.exc)
             ELSE IF rec.size = 0 THEN Leave(r, "zero", "")
             ELSE IF rec.unpack # 0 THEN Leave(r, "unpack", "ZFSError")
             ELSE IF l.op = "lzc_get_props"
             THEN IF rec.name = l.name
                  THEN Leave([r EXCEPT !.entry = rec.name,
                                       !.result = rec.properties], "match", "")
                  ELSE [r EXCEPT !.entry = None, !.result = rec.properties]
             ELSE IF rec.name # l.name
                  THEN [r EXCEPT !.pc = "suspended",
                                 !.yielded = Append(l.yielded, rec.name)]
                  ELSE r

ReadRecord ==
    /\ listing.pc = "loop"
    /\ listing' = read_record(listing)
    /\ UNCHANGED <<engineVars, last, initVars, datasetVars,
                   engineKeepsContract, libProvides, called, scope, codec>>

\* the descriptors closed only where the loop was left without raising
finally_close_unless_raised(l) ==
    IF l.pending # "" THEN l
    ELSE [l EXCEPT !.open = {},
                   !.closes = [rfd |-> l.closes.rfd + 1,
                               wfd |-> l.closes.wfd + 1]]

\* finally: os.close(other_fd); os.close(fd)
finally_close(l) ==
    [l EXCEPT !.open = l.open \ {"wfd", "rfd"},
              !.closes = [rfd |-> l.closes.rfd + 1, wfd |-> l.closes.wfd + 1]]

\* what follows the finally clause: the exception that left the loop goes
\* on; else lzc_get_props raises DatasetNotFound if entry is None and
\* returns the properties if not, and an iterator is exhausted, or
\* closed where it was left by GeneratorExit
after_finally(l) ==
    IF l.pending # "" THEN ListingOutcome("raise", l.pending, NoValue)
    ELSE IF l.op = "lzc_get_props"
    THEN IF l.entry = None
         THEN ListingOutcome("raise", "DatasetNotFound", NoValue)
         ELSE ListingOutcome("return", "", PropsReturned(l.result, l.name))
    ELSE IF l.exit = "generatorexit"
         THEN ListingOutcome("closed", "", NoValue)
         ELSE ListingOutcome("raise", "StopIteration", NoValue)

Finally ==
    /\ listing.pc = "finally"
    /\ listing' = [finally_close(listing) EXCEPT
                      !.pc = "over", !.outcome = after_finally(listing)]
    /\ UNCHANGED <<engineVars, last, initVars, datasetVars,
                   engineKeepsContract, libProvides, called, scope, codec>>

\* next() of the iterator: the generator starts, or resumes after its yield
Advance ==
    /\ listing.pc \in {"created", "suspended"}
    /\ listing' = [listing EXCEPT !.pc = "loop"]
    /\ UNCHANGED <<engineVars, last, initVars, datasetVars,
                   engineKeepsContract, libProvides, called, scope, codec>>

\* The iterator is dropped.  A generator that has not started runs none
\* of its code, its try statement was never entered; one suspended at
\* its yield gets GeneratorExit there and runs its finally clause.
Abandon ==
    /\ listing.pc \in {"created", "suspended"}
    /\ listing' =
          IF listing.pc = "created"
          THEN [listing EXCEPT !.pc = "over", !.exit = "dropped",
                               !.outcome = ListingOutcome("closed", "", NoValue)]
          ELSE Leave(listing, "generatorexit", "")
    /\ UNCHANGED <<engineVars, last, initVars, datasetVars,
                   engineKeepsContract, libProvides, called, scope, codec>>

NextListing ==
    \/ \E op \in ListingOps, name \in ListNames : ListingCalled(op, name)
    \/ lzc_list
    \/ ReadRecord
    \/ Finally
    \/ Advance
    \/ Abandon

-----------------------------------------------------------------------------
(* lzc_send *)

\* the keys of the dict of flags: 'embedded_data' and 'large_blocks'
SendFlags == {"embedded_data", "large_blocks"}

\* Native lzc_send: the stream of a snapshot that exists, full or from an
\* earlier snapshot that exists; sending changes nothing in the engine.
native_lzc_send(snapname, fromsnap, fd, c_flags) ==
    LET failures ==
            (IF snapname \notin snapshots THEN {Errno.ENOENT} ELSE {})
            \cup (IF fromsnap # None /\ fromsnap \notin snapshots
                  THEN {Errno.ENOENT} ELSE {})
            \cup (IF fromsnap = snapname THEN {Errno.EXDEV} ELSE {})
    IN  IF failures # {} THEN failures ELSE {0}

lzc_send_xlate_error(ret, snapname, fromsnap, fd, flags) ==
    HandleErr(ret, "lzc_send")

\* the flags judged by the status of the native call
lzc_send_result_blaming_flags(ret, snapname, fromsnap, fd, flags) ==
    IF ret # 0 /\ flags # <<>>
    THEN Raise("UnknownStreamFeature", {})
    ELSE lzc_send_xlate_error(ret, snapname, fromsnap, fd, flags)

\* xlate.lzc_send_xlate_error(ret, snapname, fromsnap, fd, flags); the
\* wrapper returns nothing
lzc_send_result(ret, snapname, fromsnap, fd, flags) ==
    lzc_send_xlate_error(ret, snapname, fromsnap, fd, flags)

\* for flag in flags: the flags before the first that is not a key of the
\* dict are or-ed into c_flags, the first that is not raises
lzc_send(snapname, fromsnap, fd, flags) ==
    /\ Ready
    /\ LET unknown == {i \in DOMAIN flags : flags[i] \notin SendFlags}
       IN  IF unknown # {}
           THEN \* raise exceptions.UnknownStreamFeature(flag)
                LET first == CHOOSE i \in unknown : \A j \in unknown : i <= j
                IN  /\ last' = [NoCall EXCEPT
                                  !.op = "lzc_send", !.name = snapname,
                                  !.origin = fromsnap, !.fd = fd,
                                  !.flags = flags,
                                  !.c_flags = {flags[i] : i \in 1..(first - 1)},
                                  !.pre = Pre,
                                  !.res = Raise("UnknownStreamFeature", {})]
                    /\ UNCHANGED <<engineVars, initVars, datasetVars, sideVars>>
           ELSE \E ret \in (IF engineKeepsContract
                             THEN native_lzc_send(snapname, fromsnap, fd,
                                                  Range(flags))
                             ELSE {0, Errno.EBUSY}) :
                    /\ last' = [NoCall EXCEPT
                                  !.op = "lzc_send", !.name = snapname,
                                  !.origin = fromsnap, !.fd = fd,
                                  !.flags = flags, !.c_flags = Range(flags),
                                  !.nativeCalls = 1, !.ret = ret, !.pre = Pre,
                                  !.res = lzc_send_result(ret, snapname,
                                                          fromsnap, fd, flags)]
                    /\ UNCHANGED <<engineVars, initVars, datasetVars, sideVars>>

-----------------------------------------------------------------------------
(* The arguments the model draws *)

SmallSubsets(S) == {T \in SUBSET S : Cardinality(T) <= MaxBatch}

SnapLists == SeqsUpTo(SnapNames, MaxBatch)

BookmarkLists == SeqsUpTo(BookmarkNames, MaxBatch)

\* dict of bookmark name : snapshot name
BookmarkDicts == UNION {[S -> SnapNames] : S \in SmallSubsets(BookmarkNames)}

\* dict of snapshot name : hold tag
HoldDicts == UNION {[S -> Tags] : S \in SmallSubsets(SnapNames)}

\* None, or a descriptor that is not associated with /dev/zfs
FdArgs == {[isNone |-> TRUE, fd |-> -1], [isNone |-> FALSE, fd |-> 3]}

\* a value of the holds dict given to lzc_release: a list of tags, or
\* something that is not a list
ReleaseValues ==
    {[isList |-> TRUE, tags |-> t] : t \in SeqsUpTo(Tags, MaxTags)}
        \cup {[isList |-> FALSE, tags |-> <<>>]}

\* the number of tags a holds dict gives, over all its snapshots
RECURSIVE TagsGiven(_, _)
TagsGiven(holdsArg, S) ==
    IF S = {} THEN 0
    ELSE LET s == CHOOSE x \in S : TRUE
         IN  Len(holdsArg[s].tags) + TagsGiven(holdsArg, S \ {s})

\* dict of snapshot name : list of hold tags
ReleaseDicts ==
    {d \in UNION {[S -> ReleaseValues] : S \in SmallSubsets(SnapNames)} :
        TagsGiven(d, DOMAIN d) <= MaxTags}

\* the dataset types given to lzc_create: the two supported and another
DsTypes == {"zfs", "zvol", "raw"}

\* the props of a dataset: None, no property, a valid one, an unknown
\* name, a value of the wrong type, a value out of range
DatasetPropsArgs ==
    {[isNone |-> TRUE, entries |-> {}],
     [isNone |-> FALSE, entries |-> {}],
     [isNone |-> FALSE, entries |-> {[key |-> "atime", type |-> "int", val |-> 0]}],
     [isNone |-> FALSE, entries |-> {[key |-> "BOGUS", type |-> "int", val |-> 0]}],
     [isNone |-> FALSE, entries |-> {[key |-> "atime", type |-> "str", val |-> 0]}],
     [isNone |-> FALSE, entries |-> {[key |-> "atime", type |-> "int", val |-> 20]}]}

\* the flags given to lzc_send: None and no flag are the same to the
\* loop; the known flags, and a flag that is not known, in any position
SendFlagLists == SeqsUpTo(SendFlags \cup {"compressed"}, 2)

\* the starting snapshot of an incremental stream, or None
FromSnaps == {None} \cup SnapNames

-----------------------------------------------------------------------------
(* The specification of the wrappers *)

Threads == 1..NumThreads

NoThread == 0

InitEngine ==
    /\ snapshots = {}
    /\ holds = {}
    /\ deferred = {}
    /\ bookmarks = {}
    /\ created = {}
    /\ clones = {}
    /\ last = NoCall

\* the library handle before its first use
InitHandle ==
    /\ inited = FALSE
    /\ lock = NoThread
    /\ pc = [t \in Threads |-> "idle"]
    /\ initRet = [t \in Threads |-> 0]
    /\ initCalls = 0
    /\ initFailed = FALSE
    /\ initOk = FALSE
    /\ observed = [t \in Threads |-> <<>>]

\* the library handle after a first use that initialized the library
InitHandleReady ==
    /\ inited = TRUE
    /\ lock = NoThread
    /\ pc = [t \in Threads |-> "idle"]
    /\ initRet = [t \in Threads |-> 0]
    /\ initCalls = 1
    /\ initFailed = FALSE
    /\ initOk = TRUE
    /\ observed = [t \in Threads |-> <<>>]

\* a C library that provides every function, none of the uncommitted
\* functions used yet
InitSide ==
    /\ libProvides = CFunctions
    /\ called = NotCalled
    /\ scope = NoScope
    /\ codec = NoCodec
    /\ listing = NoListing

Init == InitEngine /\ InitHandleReady /\ InitSide /\ engineKeepsContract = TRUE

InitAnyEngine ==
    InitEngine /\ InitHandleReady /\ InitSide /\ engineKeepsContract = FALSE

Next ==
    \/ \E snaps \in SnapLists, props \in PropsArgs : lzc_snapshot(snaps, props)
    \/ \E snaps \in SnapLists, defer \in BOOLEAN : lzc_destroy_snaps(snaps, defer)
    \/ \E bmarks \in BookmarkDicts : lzc_bookmark(bmarks)
    \/ \E bmarks \in BookmarkLists : lzc_destroy_bookmarks(bmarks)
    \/ \E holdsArg \in HoldDicts, fd \in FdArgs : lzc_hold(holdsArg, fd)
    \/ \E holdsArg \in ReleaseDicts : lzc_release(holdsArg)
    \/ ResultTaken

Spec == Init /\ [][Next]_vars

SpecAnyEngine == InitAnyEngine /\ [][Next]_vars

\* the calls that make datasets, with the calls on the snapshots they
\* are cloned from
NextDatasets ==
    \/ \E name \in CreateNames, ds_type \in DsTypes, props \in DatasetPropsArgs :
           lzc_create(name, ds_type, props)
    \/ \E name \in CloneNames, origin \in SnapNames, props \in DatasetPropsArgs :
           lzc_clone(name, origin, props)
    \/ \E snaps \in SnapLists, props \in PropsArgs : lzc_snapshot(snaps, props)
    \/ \E snaps \in SnapLists, defer \in BOOLEAN : lzc_destroy_snaps(snaps, defer)
    \/ \E holdsArg \in HoldDicts, fd \in FdArgs : lzc_hold(holdsArg, fd)
    \/ ResultTaken

SpecDatasets == Init /\ [][NextDatasets]_vars

\* the calls that check their arguments before the native call, with
\* the calls that make the snapshots and the holds they are about
NextValidation ==
    \/ \E name \in CreateNames, ds_type \in DsTypes, props \in DatasetPropsArgs :
           lzc_create(name, ds_type, props)
    \/ \E snapname \in SnapNames, fromsnap \in FromSnaps, fd \in FdArgs,
              flags \in SendFlagLists :
           lzc_send(snapname, fromsnap, fd, flags)
    \/ \E holdsArg \in ReleaseDicts : lzc_release(holdsArg)
    \/ \E snaps \in SnapLists, props \in PropsArgs : lzc_snapshot(snaps, props)
    \/ \E holdsArg \in HoldDicts, fd \in FdArgs : lzc_hold(holdsArg, fd)
    \/ ResultTaken

SpecValidation == Init /\ [][NextValidation]_vars

\* any C library: each of the functions is there or not
InitSupport ==
    /\ InitEngine
    /\ InitHandleReady
    /\ engineKeepsContract = TRUE
    /\ libProvides \in SUBSET CFunctions
    /\ called = NotCalled
    /\ scope = NoScope
    /\ codec = NoCodec
    /\ listing = NoListing

NextSupport ==
    \E name \in UncommittedNames : CallUncommitted(name) \/ AskSupported(name)

SpecSupport == InitSupport /\ [][NextSupport]_vars

SpecScope == Init /\ [][NextScope]_vars

SpecListing == Init /\ [][NextListing]_vars

\* any List value of the model, to be encoded and decoded
InitCodec ==
    /\ InitEngine
    /\ InitHandleReady
    /\ engineKeepsContract = TRUE
    /\ libProvides = CFunctions
    /\ called = NotCalled
    /\ scope = NoScope
    /\ codec \in {[NoCodec EXCEPT !.stage = "value", !.v = t] : t \in ValueTrees}
    /\ listing = NoListing

SpecCodec == InitCodec /\ [][NextCodec]_vars

-----------------------------------------------------------------------------
(* LazyInit.__getattr__: the threads' first uses of the library handle    *)

\* what libzfs_core_init can return: 0, or an errno
InitStatuses == {0, Errno.ENOENT}

wrapperVars == <<engineVars, last, datasetVars, sideVars>>

\* a thread reads an attribute of _lib: __getattr__(name) is entered
Access(t) ==
    /\ pc[t] = "idle"
    /\ Len(observed[t]) < MaxAccesses
    /\ pc' = [pc EXCEPT ![t] = "check"]
    /\ UNCHANGED <<inited, lock, initRet, initCalls, initFailed, initOk, observed, wrapperVars>>

\* if not self._inited:
CheckInited(t) ==
    /\ pc[t] = "check"
    /\ pc' = [pc EXCEPT ![t] = IF inited THEN "getattr" ELSE "acquire"]
    /\ UNCHANGED <<inited, lock, initRet, initCalls, initFailed, initOk, observed, wrapperVars>>

\* with self._lock:
Acquire(t) ==
    /\ pc[t] = "acquire"
    /\ lock = NoThread
    /\ lock' = t
    /\ pc' = [pc EXCEPT ![t] = "recheck"]
    /\ UNCHANGED <<inited, initRet, initCalls, initFailed, initOk, observed, wrapperVars>>

\* if not self._inited: (under the lock)
RecheckInited(t) ==
    /\ pc[t] = "recheck"
    /\ pc' = [pc EXCEPT ![t] = IF inited THEN "release" ELSE "init"]
    /\ UNCHANGED <<inited, lock, initRet, initCalls, initFailed, initOk, observed, wrapperVars>>

\* ret = self._lib.libzfs_core_init()
CallInit(t) ==
    /\ pc[t] = "init"
    /\ \E ret \in InitStatuses :
          /\ initRet' = [initRet EXCEPT ![t] = ret]
          /\ initFailed' = (initFailed \/ ret # 0)
          /\ initOk' = (initOk \/ ret = 0)
    /\ initCalls' = initCalls + 1
    /\ pc' = [pc EXCEPT ![t] = "test"]
    /\ UNCHANGED <<inited, lock, observed, wrapperVars>>

\* the failure of libzfs_core_init passed over: the access goes on
RaiseInitializationFailedGoingOn(t) ==
    /\ pc[t] = "test"
    /\ initRet[t] # 0
    /\ pc' = [pc EXCEPT ![t] = "release"]
    /\ UNCHANGED <<inited, lock, initRet, initCalls, initFailed, initOk, observed,
                   wrapperVars>>

\* if ret != 0: raise exceptions.ZFSInitializationFailed(ret), which leaves
\* the with block and releases the lock
RaiseInitializationFailed(t) ==
    /\ pc[t] = "test"
    /\ initRet[t] # 0
    /\ lock' = NoThread
    /\ observed' = [observed EXCEPT ![t] = Append(@, "ZFSInitializationFailed")]
    /\ pc' = [pc EXCEPT ![t] = "idle"]
    /\ UNCHANGED <<inited, initRet, initCalls, initFailed, initOk, wrapperVars>>

\* self._inited = True
SetInited(t) ==
    /\ pc[t] = "test"
    /\ initRet[t] = 0
    /\ inited' = TRUE
    /\ pc' = [pc EXCEPT ![t] = "release"]
    /\ UNCHANGED <<lock, initRet, initCalls, initFailed, initOk, observed, wrapperVars>>

\* the end of the with block
Release(t) ==
    /\ pc[t] = "release"
    /\ lock' = NoThread
    /\ pc' = [pc EXCEPT ![t] = "getattr"]
    /\ UNCHANGED <<inited, initRet, initCalls, initFailed, initOk, observed, wrapperVars>>

\* return getattr(self._lib, name)
GetAttr(t) ==
    /\ pc[t] = "getattr"
    /\ observed' = [observed EXCEPT ![t] = Append(@, "attribute")]
    /\ pc' = [pc EXCEPT ![t] = "idle"]
    /\ UNCHANGED <<inited, lock, initRet, initCalls, initFailed, initOk, wrapperVars>>

InitLazy == InitEngine /\ InitHandle /\ InitSide /\ engineKeepsContract = TRUE

NextLazy ==
    \E t \in Threads :
        \/ Access(t)
        \/ CheckInited(t)
        \/ Acquire(t)
        \/ RecheckInited(t)
        \/ CallInit(t)
        \/ RaiseInitializationFailed(t)
        \/ SetInited(t)
        \/ Release(t)
        \/ GetAttr(t)

SpecInit == InitLazy /\ [][NextLazy]_vars

-----------------------------------------------------------------------------
(* Properties of lzc_snapshot *)

Requested == Range(last.names)

\* a snapshot request with no error condition other than, possibly,
\* snapshots that exist already
NoOtherCondition ==
    /\ \A s \in Requested : FsOf(s) \in Filesystems
    /\ last.propsArg \subseteq UserProps

\* C1: lzc_snapshot is all-or-nothing: if the call raises, every requested
\* snapshot that did not exist before the call still does not exist; if it
\* returns normally, every requested snapshot exists.
C1_SnapshotAllOrNothing ==
    last.op = "lzc_snapshot" =>
        /\ last.res.kind = "raise" =>
               \A s \in Requested \ last.pre.snapshots : s \notin snapshots
        /\ last.res.kind = "return" => Requested \subseteq snapshots

\* a batch of a snapshot that exists and one that could have been created
\* has raised
C1_Witness ==
    /\ last.op = "lzc_snapshot"
    /\ last.res.kind = "raise"
    /\ Requested \cap last.pre.snapshots # {}
    /\ \E s \in Requested \ last.pre.snapshots : FsOf(s) \in Filesystems

\* C2: a batch in which some snapshots exist already, with no other error
\* condition, fails with SnapshotFailure carrying one SnapshotExists record
\* for each snapshot of the batch that existed and none for any other; no
\* snapshot is created.
C2_ExistingSnapshotsReported ==
    (/\ last.op = "lzc_snapshot"
     /\ Requested \cap last.pre.snapshots # {}
     /\ NoOtherCondition)
    => /\ last.res.kind = "raise"
       /\ last.res.exc = "SnapshotFailure"
       /\ last.res.errors =
              {<<s, "SnapshotExists">> : s \in Requested \cap last.pre.snapshots}
       /\ snapshots = last.pre.snapshots

\* a batch of one snapshot that existed and one that did not has failed
C2_Witness ==
    /\ last.op = "lzc_snapshot"
    /\ NoOtherCondition
    /\ Requested \cap last.pre.snapshots # {}
    /\ Requested \ last.pre.snapshots # {}
    /\ last.res.kind = "raise"

\* C3: a name given more than once in one batch is one target at the
\* boundary: when the snapshot does not exist yet and nothing else is wrong,
\* the call returns normally, the native call was given each name once, and
\* the snapshot exists afterwards.
C3_DuplicatesCollapse ==
    (/\ last.op = "lzc_snapshot"
     /\ Duplicates(last.names) # {}
     /\ Requested \cap last.pre.snapshots = {}
     /\ NoOtherCondition)
    => /\ Duplicates(last.nv) = {}
       /\ Range(last.nv) = Requested
       /\ last.res.kind = "return"
       /\ Requested \subseteq snapshots

\* the same new snapshot was asked for twice in one call
C3_Witness ==
    /\ last.op = "lzc_snapshot"
    /\ Duplicates(last.names) # {}
    /\ Requested \cap last.pre.snapshots = {}
    /\ NoOtherCondition
    /\ last.res.kind = "return"
    /\ Cardinality(snapshots) = Cardinality(last.pre.snapshots) + 1

-----------------------------------------------------------------------------
(* Properties of the destroy calls *)

DestroyOps == {"lzc_destroy_snaps", "lzc_destroy_bookmarks"}

\* a destroy call was given targets none of which existed
DestroyedAbsent ==
    /\ last.op \in DestroyOps
    /\ Requested # {}
    /\ Requested \cap (last.pre.snapshots \cup last.pre.bookmarks) = {}

\* the names are valid and their pool exists
NamesAcceptable ==
    /\ last.op = "lzc_destroy_snaps" =>
           \A s \in Requested : PoolOf(FsOf(s)) \in Pools
    /\ last.op = "lzc_destroy_bookmarks" => Requested \subseteq ValidBookmarkNames

-----------------------------------------------------------------------------
(* Properties of lzc_hold and lzc_release *)

HoldRequested == DOMAIN last.holdsArg

\* C5: whenever lzc_hold returns, it returns exactly the requested snapshots
\* that do not exist and every requested snapshot that exists carries its
\* hold; when it raises, the reason is not a missing snapshot: the cleanup
\* descriptor is bad, the names lie in different pools, or a hold is
\* impossible on a snapshot that exists.
C5_HoldReturnsMissing ==
    last.op = "lzc_hold" =>
        /\ last.res.kind = "return" =>
               /\ last.res.hasValue
               /\ last.res.value = HoldRequested \ last.pre.snapshots
               /\ \A s \in HoldRequested \cap last.pre.snapshots :
                      <<s, last.holdsArg[s]>> \in holds
        /\ last.res.kind = "raise" =>
               \/ last.fd # -1
               \/ CrossPool(HoldRequested)
               \/ \E s \in HoldRequested \cap last.pre.snapshots :
                      <<s, last.holdsArg[s]>> \in last.pre.holds

\* a hold was asked for on a snapshot that exists and on one that does not
C5_Witness ==
    /\ last.op = "lzc_hold"
    /\ last.res.kind = "return"
    /\ last.res.value # {}
    /\ \E s \in HoldRequested \cap last.pre.snapshots :
           /\ <<s, last.holdsArg[s]>> \notin last.pre.holds
           /\ <<s, last.holdsArg[s]>> \in holds

\* C6: if lzc_hold raises HoldFailure, no hold of the batch has been
\* created: the holds are those of before the call.
C6_HoldAllOrNothing ==
    (last.op = "lzc_hold" /\ last.res.kind = "raise"
        /\ last.res.exc = "HoldFailure")
    => holds = last.pre.holds

\* HoldFailure for one snapshot of a batch whose other hold was possible
C6_Witness ==
    /\ last.op = "lzc_hold"
    /\ last.res.kind = "raise"
    /\ last.res.exc = "HoldFailure"
    /\ \E s \in HoldRequested : <<s, "HoldExists">> \in last.res.errors
    /\ \E s \in HoldRequested \cap last.pre.snapshots :
           <<s, last.holdsArg[s]>> \notin last.pre.holds

\* the tags a release names that did not exist on their existing snapshots
MissingTags ==
    {h \in (HoldRequested \cap last.pre.snapshots) \X Tags :
        h[2] \in last.holdsArg[h[1]] /\ h \notin last.pre.holds}

\* C7: lzc_release of lists of tags, for names of one pool, returns
\* normally; every hold it names that existed is removed; it returns exactly
\* the snapshots that do not exist and, as <snapshot>#<tag>, the tags that
\* did not exist on snapshots that do.
C7_ReleaseSoftMisses ==
    (last.op = "lzc_release" /\ ~last.typeError /\ ~CrossPool(HoldRequested))
    => /\ last.res.kind = "return"
       /\ last.res.hasValue
       /\ \A s \in HoldRequested \cap last.pre.snapshots :
              \A t \in last.holdsArg[s] : <<s, t>> \notin holds
       /\ last.res.value =
              (HoldRequested \ last.pre.snapshots)
                  \cup {h[1] \o "#" \o h[2] : h \in MissingTags}

\* a release of a tag that existed and one that did not, on one snapshot
C7_Witness ==
    /\ last.op = "lzc_release"
    /\ last.res.kind = "return"
    /\ \E s \in HoldRequested \cap last.pre.snapshots :
           \E t1, t2 \in last.holdsArg[s] :
               /\ <<s, t1>> \in last.pre.holds
               /\ <<s, t1>> \notin holds
               /\ <<s, t2>> \notin last.pre.holds
               /\ (s \o "#" \o t2) \in last.res.value

-----------------------------------------------------------------------------
(* Properties of the classification of a status and an error list *)

SoftMissOps ==
    {"lzc_hold", "lzc_release", "lzc_destroy_snaps", "lzc_destroy_bookmarks"}

\* the native call reported success with an entry that is not ENOENT
SuccessWithOtherCode ==
    /\ last.op \in SoftMissOps
    /\ last.nativeCalls = 1
    /\ last.ret = 0
    /\ \E n \in DOMAIN last.errlist : last.errlist[n] # Errno.ENOENT

-----------------------------------------------------------------------------
(* Properties of the lazy initialization of the library handle *)

\* C9: the first uses of the library handle, by any number of threads in any
\* interleaving, invoke libzfs_core_init exactly once: never more than
\* once, and once when some use has ended.
C9_InitializedOnce ==
    /\ initCalls <= 1
    /\ (\E t \in Threads : observed[t] # <<>>) => initCalls = 1

\* C10: once libzfs_core_init has returned a nonzero status, no access to the
\* library handle by any thread succeeds any more.
C10_FailureIsPermanent ==
    [][initFailed =>
          \A t \in Threads : observed'[t] # Append(observed[t], "attribute")]_vars

-----------------------------------------------------------------------------
(* Properties of the destruction of snapshots that are held or cloned *)

\* the snapshots of a destroy call that existed and had user holds
HeldBefore ==
    {s \in Requested \cap last.pre.snapshots :
        \E t \in Tags : <<s, t>> \in last.pre.holds}

\* the snapshots of a destroy call that existed and had clones
ClonedBefore ==
    {s \in Requested \cap last.pre.snapshots :
        \E c \in last.pre.clones : c[2] = s}

\* C11: lzc_destroy_snaps with defer set, on snapshots of the one pool some
\* of which have user holds, returns normally; each held snapshot is marked
\* for deferred destruction and still exists right after the call.  A
\* snapshot that was marked exists after any call exactly as long as it
\* has a hold or a clone left.
C11_DeferredDestruction ==
    /\ (/\ last.op = "lzc_destroy_snaps"
        /\ last.defer
        /\ \A s \in Requested : PoolOf(FsOf(s)) \in Pools
        /\ HeldBefore # {})
       => /\ last.res = ReturnNone
          /\ HeldBefore \subseteq deferred
          /\ HeldBefore \subseteq snapshots
    /\ \A s \in last.pre.deferred : s \in snapshots <=> (Held(s) \/ Cloned(s))
    /\ \A s \in deferred : s \in snapshots /\ (Held(s) \/ Cloned(s))

\* a held snapshot and one without holds were destroyed with defer set: the
\* one is gone, the other is marked and exists
C11_Witness ==
    /\ last.op = "lzc_destroy_snaps"
    /\ last.defer
    /\ last.res.kind = "return"
    /\ \E s \in HeldBefore : s \in deferred /\ s \in snapshots
    /\ \E s \in (Requested \cap last.pre.snapshots) \ HeldBefore : s \notin snapshots

\* a release has removed the last hold of a snapshot marked for deferred
\* destruction, and the snapshot is gone
DeferredDestroyedByRelease ==
    /\ last.op = "lzc_release"
    /\ \E s \in last.pre.deferred : s \notin snapshots

\* C12: lzc_destroy_snaps without defer, on a batch in which a snapshot has
\* user holds or clones, raises SnapshotDestructionFailure and destroys no
\* snapshot of the batch.
C12_DestroyAllOrNothing ==
    (/\ last.op = "lzc_destroy_snaps"
     /\ ~last.defer
     /\ HeldBefore \cup ClonedBefore # {})
    => /\ last.res.kind = "raise"
       /\ last.res.exc = "SnapshotDestructionFailure"
       /\ snapshots = last.pre.snapshots
       /\ deferred = last.pre.deferred

\* a cloned snapshot and one without holds or clones were in the batch
C12_Witness ==
    /\ last.op = "lzc_destroy_snaps"
    /\ ~last.defer
    /\ ClonedBefore # {}
    /\ (Requested \cap last.pre.snapshots) \ (HeldBefore \cup ClonedBefore) # {}
    /\ last.res.kind = "raise"

-----------------------------------------------------------------------------
(* Properties of the outcomes of the batch calls *)

BatchOps ==
    {"lzc_snapshot", "lzc_destroy_snaps", "lzc_bookmark",
     "lzc_destroy_bookmarks", "lzc_hold", "lzc_release"}

\* the compound exception of each batch call
CompoundException(op) ==
    CASE op = "lzc_snapshot" -> "SnapshotFailure"
      [] op = "lzc_destroy_snaps" -> "SnapshotDestructionFailure"
      [] op = "lzc_bookmark" -> "BookmarkFailure"
      [] op = "lzc_destroy_bookmarks" -> "BookmarkDestructionFailure"
      [] op = "lzc_hold" -> "HoldFailure"
      [] op = "lzc_release" -> "HoldReleaseFailure"

\* the native call of a batch call failed and named no target
FailedWithoutErrors ==
    /\ last.op \in BatchOps
    /\ last.nativeCalls = 1
    /\ last.ret # 0
    /\ DOMAIN last.errlist = {}

\* C13: a batch call whose native call fails with an empty error list
\* raises the call's compound exception with exactly one error, which
\* carries no target name and whose kind is the one of the status code.
C13_CallGlobalFault ==
    FailedWithoutErrors =>
        /\ last.res.kind = "raise"
        /\ last.res.exc = CompoundException(last.op)
        /\ last.res.errors = {<<NoName, ErrorKind(last.op, last.ret)>>}

\* two snapshots were asked for, one of them on a filesystem that does not
\* exist: ENOENT and no error list
C13_Witness ==
    /\ FailedWithoutErrors
    /\ last.op = "lzc_snapshot"
    /\ last.ret = Errno.ENOENT
    /\ Cardinality(Requested) = 2
    /\ last.res.kind = "raise"
    /\ <<NoName, "FilesystemNotFound">> \in last.res.errors

CreateStyleOps == {"lzc_snapshot", "lzc_bookmark"}

\* the call returned and gave no soft misses
Succeeded ==
    last.res.kind = "return" /\ (last.res.hasValue => last.res.value = {})

\* the call returned a list of soft misses: targets the engine reported
\* as missing
SucceededWithSoftMisses ==
    /\ last.res.kind = "return"
    /\ last.res.hasValue
    /\ last.res.value # {}
    /\ last.res.value = DOMAIN last.errlist
    /\ \A n \in DOMAIN last.errlist : last.errlist[n] = Errno.ENOENT

\* the call raised its compound exception, and the engine is as it was
FailedCompound ==
    /\ last.res.kind = "raise"
    /\ last.res.exc = CompoundException(last.op)
    /\ last.res.errors # {}
    /\ Pre = last.pre

\* the targets of a create-style call
CreateTargets ==
    IF last.op = "lzc_snapshot" THEN Requested ELSE DOMAIN last.holdsArg

\* one of the three outcomes; a create-style call has no soft misses, it
\* creates all its targets or fails
ThreeOutcomes ==
    /\ Succeeded \/ SucceededWithSoftMisses \/ FailedCompound
    /\ last.op \in CreateStyleOps =>
           /\ ~last.res.hasValue
           /\ last.res.kind = "return" =>
                  CreateTargets \subseteq (snapshots \cup bookmarks)

-----------------------------------------------------------------------------
(* Properties of lzc_create and lzc_clone *)

\* the filesystems and volumes that existed before the call
DatasetsBefore ==
    Filesystems \cup last.pre.created \cup {c[1] : c \in last.pre.clones}

\* the call has reached its native call with a name that did not exist,
\* and with valid properties
NewDatasetAsked(op) ==
    /\ last.op = op
    /\ last.nativeCalls = 1
    /\ last.name \notin DatasetsBefore
    /\ \A e \in last.propsArg : ValidProp(e)

ParentMissing == ParentOf(last.name) \notin DatasetsBefore

OriginMissing == last.origin \notin last.pre.snapshots

\* C15: lzc_clone of a new name from an origin of the same pool raises
\* DatasetNotFound when the parent filesystem of the name does not exist,
\* when the origin snapshot does not exist and when both do not; the clone
\* does not exist afterwards.
C15_CloneNotFoundIsCoarse ==
    (/\ NewDatasetAsked("lzc_clone")
     /\ PoolOf(FsOf(last.origin)) = PoolOf(ParentOf(last.name))
     /\ ParentMissing \/ OriginMissing)
    => /\ last.res = Raise("DatasetNotFound", {})
       /\ last.name \notin Datasets
       /\ clones = last.pre.clones

\* the parent of the clone's name does not exist, the origin snapshot does
C15_Witness ==
    /\ NewDatasetAsked("lzc_clone")
    /\ ParentMissing
    /\ ~OriginMissing
    /\ last.res.kind = "raise"
    /\ last.res.exc = "DatasetNotFound"

\* the origin snapshot does not exist, the parent of the clone's name does
CloneOfMissingOrigin ==
    /\ NewDatasetAsked("lzc_clone")
    /\ ~ParentMissing
    /\ OriginMissing
    /\ PoolOf(FsOf(last.origin)) = PoolOf(ParentOf(last.name))
    /\ last.res.kind = "raise"
    /\ last.res.exc = "DatasetNotFound"

CreatedTwice ==
    /\ last.op = "lzc_create"
    /\ last.name \in last.pre.created
    /\ last.res.exc = "FilesystemExists"

-----------------------------------------------------------------------------
(* Properties of the uncommitted extensions *)

\* C17: a call of a decorated API function raises NotImplementedError
\* exactly when is_supported of that function is False, that is, for a
\* function decorated with a check_func, when the C library lacks the
\* function the check_func names.
C17_RaisesIffUnsupported ==
    called.op = "call" =>
        (called.outcome = "NotImplementedError"
            <=> ~is_supported(Global(called.func)))

-----------------------------------------------------------------------------
(* Properties of one execution of a wrapper *)

\* C18: in a wrapper with an output list, the list is allocated once when
\* the with block is entered, the native call is given it only while it
\* is allocated, and when the block has been left, by its end or by an
\* exception of the call, its contents have been decoded once into the
\* caller's dict and it has been freed exactly once.
C18_OutputListScope ==
    /\ scope.allocs <= 1
    /\ scope.frees <= scope.allocs
    /\ ~scope.usedOutside
    /\ (scope.op \in OutputListOps /\ Step = "call") => scope.handle = "allocated"
    /\ (scope.op \in OutputListOps /\ (Step = "xlate" \/ scope.pc = "done")) =>
           /\ scope.allocs = 1
           /\ scope.frees = 1
           /\ scope.handle = "freed"
           /\ scope.decodes = 1
           /\ scope.sink = scope.content
    /\ scope.op \in PlainOps => scope.allocs = 0

\* the with block of lzc_hold was left by an exception
C18_Witness ==
    /\ scope.op = "lzc_hold"
    /\ scope.pc = "done"
    /\ scope.raised = "ZFSInitializationFailed"
    /\ scope.frees = 1

\* the native call of lzc_snapshot filled the list, and the list was
\* decoded and freed
ScopeLeftWithContents ==
    /\ scope.op = "lzc_snapshot"
    /\ scope.pc = "done"
    /\ scope.sink # {}
    /\ scope.frees = 1

\* C19: in one execution of a wrapper the native function is invoked at
\* most once; when it has returned a failure status the wrapper ends by
\* raising the fault, with no second invocation.
C19_NoRetry ==
    /\ scope.nativeCalls <= 1
    /\ (scope.pc = "done" /\ scope.nativeCalls = 1 /\ scope.ret # 0) =>
           /\ scope.outcome = "raise"
           /\ scope.raised = "fault"
    /\ (scope.pc = "done" /\ scope.outcome = "return") =>
           scope.nativeCalls = 1 /\ scope.ret = 0

\* lzc_destroy_snaps has ended with the fault of its one native call
C19_Witness ==
    /\ scope.op = "lzc_destroy_snaps"
    /\ scope.pc = "done"
    /\ scope.nativeCalls = 1
    /\ scope.ret = Errno.EBUSY
    /\ scope.outcome = "raise"

-----------------------------------------------------------------------------
(* Properties of the List codec *)

\* C20: the List decoded from the encoding of a List equals that List: the
\* same keys in the same order, every value with its type, its scalar
\* value and, in a sequence, its elements in their order.
C20_RoundTrip == codec.stage = "decoded" => codec.out = codec.v

\* a List with a signed integer and a sequence has been encoded and decoded
C20_Witness ==
    /\ codec.stage = "decoded"
    /\ Len(codec.v) = 2
    /\ codec.v[1].val = Integer("int8", -1)
    /\ codec.v[2].val.type = "array"
    /\ codec.v[2].val.elem = "list"
    /\ codec.out = codec.v

-----------------------------------------------------------------------------
(* Validation of the arguments *)

\* the call was refused for its arguments: the dataset type of lzc_create,
\* a flag of lzc_send, a value of lzc_release that is not a list
RefusedForArguments ==
    /\ last.res.kind = "raise"
    /\ \/ last.op = "lzc_create" /\ last.res.exc = "DatasetTypeInvalid"
       \/ last.op = "lzc_send" /\ last.res.exc = "UnknownStreamFeature"
       \/ last.op = "lzc_release" /\ last.res.exc = "TypeError"

\* C21: when lzc_create raises DatasetTypeInvalid, lzc_send raises
\* UnknownStreamFeature or lzc_release raises TypeError, the native
\* function has not been called and the engine is as it was before.
C21_ValidationBeforeBoundary ==
    RefusedForArguments => last.nativeCalls = 0 /\ last.pre = Pre

\* lzc_send of a snapshot that exists refused for its second flag, the
\* first one known
C21_Witness ==
    /\ RefusedForArguments
    /\ last.op = "lzc_send"
    /\ last.name \in snapshots
    /\ last.c_flags = {"embedded_data"}
    /\ last.nativeCalls = 0

\* lzc_create refused for its type where the dataset could have been made
CreateRefusedForType ==
    /\ RefusedForArguments
    /\ last.op = "lzc_create"
    /\ last.name = "p/fs1/new"
    /\ last.name \notin Datasets

\* lzc_release refused where holds exist
ReleaseRefusedForValue ==
    /\ RefusedForArguments
    /\ last.op = "lzc_release"
    /\ holds # {}

-----------------------------------------------------------------------------
(* Safety of the lazy initialization *)

\* a thread is about to read, or has read, an attribute of the library
ReadsAttribute(t) ==
    \/ pc[t] = "getattr"
    \/ \E i \in DOMAIN observed[t] : observed[t][i] = "attribute"

\* the step of a thread whose call of libzfs_core_init has just failed
FailedAttemptEnds(t) ==
    /\ pc[t] = "test"
    /\ initRet[t] # 0
    /\ pc'[t] # pc[t]

\* C22: in every interleaving, a thread reads an attribute of the library
\* through the handle only after libzfs_core_init has returned 0, and a
\* thread whose call of libzfs_core_init failed ends its access by raising
\* ZFSInitializationFailed, reading no attribute.
C22_NoAttributeBeforeInit ==
    /\ [](\A t \in Threads : ReadsAttribute(t) => initOk)
    /\ [][\A t \in Threads :
            FailedAttemptEnds(t) =>
                /\ pc'[t] = "idle"
                /\ observed'[t] = Append(observed[t], "ZFSInitializationFailed")]_vars

\* one thread's initialization has failed and it has raised, another has
\* initialized the library and read an attribute
C22_Witness ==
    \E t, u \in Threads :
        /\ t # u
        /\ observed[t] = <<"ZFSInitializationFailed">>
        /\ \E i \in DOMAIN observed[u] : observed[u][i] = "attribute"
        /\ initOk
        /\ initFailed

-----------------------------------------------------------------------------
(* Properties of lzc_list and its readers *)

\* lzc_get_props has the descriptors of the pipe from lzc_list
GetPropsReading == listing.op = "lzc_get_props" /\ listing.listed

\* C23: in lzc_get_props, once lzc_list has returned the descriptors, each
\* of the two is closed exactly once however the loop is left: both are
\* open and not closed while the loop runs, and closed once, and no more
\* than once, when lzc_get_props is over.
C23_DescriptorsClosedOnce ==
    GetPropsReading =>
        /\ listing.pc \in {"loop", "finally"} =>
               /\ listing.open = {"rfd", "wfd"}
               /\ listing.closes = [rfd |-> 0, wfd |-> 0]
        /\ listing.pc = "over" =>
               /\ listing.open = {}
               /\ listing.closes = [rfd |-> 1, wfd |-> 1]

\* lzc_get_props is over, left by a failed unpack of the second record
C23_Witness ==
    /\ GetPropsReading
    /\ listing.pc = "over"
    /\ listing.exit = "unpack"
    /\ listing.pos = 2
    /\ listing.outcome.kind = "raise"
    /\ listing.closes = [rfd |-> 1, wfd |-> 1]

\* C24: no descriptor of the pipe that lzc_list opens is left open when
\* the use of it is over: not when lzc_list raises, and not when the
\* iterator of lzc_list_children or lzc_list_snaps is dropped, started
\* or not.
C24_NoDescriptorLeaked == listing.pc = "over" => listing.open = {}

\* the first record at which lzc_get_props stops reading: one with an
\* error, of size zero, that does not unpack, or of the name asked for;
\* 0 if there is none
StopsReading(rec, name) ==
    rec.err # 0 \/ rec.size = 0 \/ rec.unpack # 0 \/ rec.name = name

IsMatch(rec, name) ==
    rec.err = 0 /\ rec.size # 0 /\ rec.unpack = 0 /\ rec.name = name

\* the stream ends, by its end or by a record of size zero, before any
\* record of the name, and up to there no record carries an error
EndsWithoutMatch(stream, name) ==
    \E e \in 1..(Len(stream) + 1) :
        /\ e <= Len(stream) => stream[e].size = 0 /\ stream[e].err = 0
        /\ \A j \in 1..(e - 1) :
              /\ stream[j].size # 0
              /\ stream[j].err = 0
              /\ stream[j].name # name

\* no record before the end of the stream has data that does not unpack
UnpacksToTheEnd(stream) ==
    \A j \in DOMAIN stream :
        (\A i \in 1..(j - 1) : stream[i].size # 0) /\ stream[j].size # 0
            => stream[j].unpack = 0

\* what the design says of a finished lzc_get_props, but for when it
\* raises DatasetNotFound
ReadsInOrder(l) ==
    /\ l.outcome.kind = "return" =>
           /\ l.pos \in DOMAIN l.stream
           /\ IsMatch(l.stream[l.pos], l.name)
           /\ \A j \in 1..(l.pos - 1) : ~StopsReading(l.stream[j], l.name)
           /\ l.outcome.value = PropsReturned(l.stream[l.pos].properties, l.name)
    /\ \A i \in DOMAIN l.stream :
           /\ l.stream[i].err # 0
           /\ \A j \in 1..(i - 1) : ~StopsReading(l.stream[j], l.name)
           => /\ l.outcome.kind = "raise"
              /\ l.outcome.exc
                    = lzc_get_props_xlate_error(l.stream[i].err, l.name).exc
              /\ l.pos = i

RaisedDatasetNotFound(l) ==
    l.outcome.kind = "raise" /\ l.outcome.exc = "DatasetNotFound"

NotFoundAfterOtherName ==
    /\ GetPropsReading
    /\ listing.pc = "over"
    /\ listing.pos = 2
    /\ listing.exit = "zero"
    /\ RaisedDatasetNotFound(listing)

====
